---------------------------- MODULE Spec2Model ----------------------------
(***************************************************************************)
(* BIDashboard backend (clean-architecture variant): the token service,    *)
(* the authentication use cases and middleware, and the dashboard use      *)
(* cases, as state machines.                                               *)
(*                                                                         *)
(* Text is a sequence of one-character strings, so that str.lower(),       *)
(* str.strip(), str(int) and int(str) are computed and not assumed.        *)
(* Time is the POSIX clock in whole seconds (now) plus a sub-second        *)
(* counter (us): PyJWT truncates exp, nbf and iat with int() before it     *)
(* compares them, and the jti is built from int(now.timestamp()), so the   *)
(* sub-second part only tells two tokens of the same second apart.         *)
(***************************************************************************)
EXTENDS Integers, Sequences, FiniteSets, TLC

VARIABLES
    users,          \* the users table, in id order (ids are 1..Len(users))
    now,            \* clock, whole seconds
    us,             \* clock, sub-second part: grows with each token issued
    revoked,        \* JwtTokenService._revoked_tokens
    issued,         \* tokens handed out to clients so far
    revokeCalled,   \* history: tokens revoke_token was called on
    dashboards,     \* the dashboards table, in insertion order
    nextDashId,     \* the dashboards table's autoincrement counter
    files,          \* paths of the files under the storage base directory
    resp,           \* the answer of the last operation
    pydantic,       \* major version of the pydantic library the build installed
    updating,       \* the update_dashboard handler that is suspended between its awaits
    dbcfg,          \* the DatabaseConfig object
    sessions        \* the database sessions made so far, each open or closed

\* the state of database_config.py
dbVars == <<dbcfg, sessions>>

vars ==
    <<users, now, us, revoked, issued, revokeCalled, dashboards, nextDashId, files,
      resp, pydantic, updating, dbcfg, sessions>>

-----------------------------------------------------------------------------
(* Bounds of the model                                                     *)

MaxUsers == 2       \* rows the users table may hold
MaxIssued == 3      \* tokens handed out in one behaviour
MaxDashboards == 2  \* dashboards created in one behaviour
MaxSalt == 1        \* salts bcrypt.gensalt may draw
MaxStored == 3       \* dashboards a database is drawn with
MaxLimit == 3        \* the largest limit a request for featured dashboards carries
MaxRequests == 2     \* requests that acquire a database session in one behaviour
MaxWrites == 2       \* rows one request writes through its repositories

-----------------------------------------------------------------------------
(* Text                                                                    *)

UpperChars ==
    <<"A", "B", "C", "D", "E", "F", "G", "H", "I", "J", "K", "L", "M", 
      "N", "O", "P", "Q", "R", "S", "T", "U", "V", "W", "X", "Y", "Z">>
LowerChars ==
    <<"a", "b", "c", "d", "e", "f", "g", "h", "i", "j", "k", "l", "m", 
      "n", "o", "p", "q", "r", "s", "t", "u", "v", "w", "x", "y", "z">>
UpperSet == {UpperChars[i] : i \in 1..Len(UpperChars)}
LowerSet == {LowerChars[i] : i \in 1..Len(LowerChars)}
DigitChars == <<"0", "1", "2", "3", "4", "5", "6", "7", "8", "9">>
DigitSet == {DigitChars[i] : i \in 1..10}

\* str.lower() on one character
LowerChar(c) ==
    IF c \in UpperSet
    THEN LowerChars[CHOOSE i \in 1..Len(UpperChars) : UpperChars[i] = c]
    ELSE c

\* str.lower()
Lower(s) == [i \in 1..Len(s) |-> LowerChar(s[i])]

RECURSIVE LStrip(_)
LStrip(s) == IF Len(s) > 0 /\ Head(s) = " " THEN LStrip(Tail(s)) ELSE s

RECURSIVE RStrip(_)
RStrip(s) ==
    IF Len(s) > 0 /\ s[Len(s)] = " " THEN RStrip(SubSeq(s, 1, Len(s) - 1)) ELSE s

\* str.strip()
Strip(s) == RStrip(LStrip(s))

\* str(n) for n >= 0
RECURSIVE StrOfInt(_)
StrOfInt(n) ==
    IF n < 10 THEN <<DigitChars[n + 1]>>
    ELSE StrOfInt(n \div 10) \o <<DigitChars[(n % 10) + 1]>>

DigitValue(c) == (CHOOSE i \in 1..10 : DigitChars[i] = c) - 1

\* int(s); -1 stands for the ValueError int() raises
RECURSIVE IntOfStr(_)
IntOfStr(s) ==
    IF Len(s) = 0 \/ \E i \in 1..Len(s) : s[i] \notin DigitSet THEN -1
    ELSE IF Len(s) = 1 THEN DigitValue(s[1])
    ELSE IntOfStr(SubSeq(s, 1, Len(s) - 1)) * 10 + DigitValue(s[Len(s)])

-----------------------------------------------------------------------------
(* BcryptPasswordHasher                                                    *)

NoHash == [salt |-> 0, digest |-> <<>>]

\* hash_password: a salted digest; the salt is drawn by the caller
hash_password(password, salt) == [salt |-> salt, digest |-> password]

\* verify_password
verify_password(plain, hashed) ==
    IF Len(plain) = 0 \/ hashed = NoHash THEN FALSE
    ELSE hash_password(plain, hashed.salt) = hashed

-----------------------------------------------------------------------------
(* JwtTokenService                                                         *)

access_token_expire_minutes == 30
refresh_token_expire_days == 7

\* timedelta(minutes=m) and timedelta(days=d), in seconds
Minutes(m) == m * 60
Days(d) == d * 86400

RefreshSeconds == Days(refresh_token_expire_days)

\* A token string.  raw = "" is a three-part JWT carrying the claims below;
\* any other raw is a string that is no JWT.  sig tells whether the
\* signature verifies under the service's secret.  jti = <<>> is a payload
\* without a jti claim.
Jwt(sub, username, is_admin, type, iat, exp, usec, jti, sig) ==
    [raw |-> "", sub |-> sub, username |-> username, is_admin |-> is_admin,
     type |-> type, iat |-> iat, exp |-> exp, nbf |-> iat, us |-> usec,
     jti |-> jti, sig |-> sig]

Opaque(text) ==
    [raw |-> text, sub |-> <<>>, username |-> <<>>, is_admin |-> FALSE,
     type |-> "", iat |-> 0, exp |-> 0, nbf |-> 0, us |-> 0,
     jti |-> <<>>, sig |-> FALSE]

EmptyToken == Opaque("")

\* f"{type}_{user_id}_{int(now.timestamp())}"
Jti(type, user_id, sec) == <<type, StrOfInt(user_id), sec>>

\* generate_access_token, one second of lifetime per unit of expires_delta
generate_access_token(user_id, username, is_admin, expires_delta, sec, usec) ==
    Jwt(StrOfInt(user_id), username, is_admin, "access", sec, sec + expires_delta,
        usec, Jti("access", user_id, sec), TRUE)

\* generate_refresh_token; the payload has no is_admin claim, which every
\* reader takes as False
generate_refresh_token(user_id, username, sec, usec) ==
    Jwt(StrOfInt(user_id), username, FALSE, "refresh", sec, sec + RefreshSeconds,
        usec, Jti("refresh", user_id, sec), TRUE)

\* jwt.decode(token, key, algorithms, options): "ok" or the name of the
\* exception raised.  require is the set of claims options["require"] names.
JwtDecode(token, sec, verify_exp, require) ==
    IF token.raw # "" THEN "DecodeError"
    ELSE IF ~token.sig THEN "InvalidSignatureError"
    ELSE IF "jti" \in require /\ token.jti = <<>> THEN "MissingRequiredClaimError"
    ELSE IF token.iat > sec THEN "ImmatureSignatureError"
    ELSE IF token.nbf > sec THEN "ImmatureSignatureError"
    ELSE IF verify_exp /\ token.exp <= sec THEN "ExpiredSignatureError"
    ELSE "ok"

\* sha256(token.encode()).hexdigest(): an entry of the revocation set that
\* names one token string
TokenHash(token) == [kind |-> "hash", jti |-> <<>>, token |-> token]

JtiEntry(jti) == [kind |-> "jti", jti |-> jti, token |-> EmptyToken]

\* is_token_revoked with every entry of the set ignored but the token hashes
is_token_revoked_HashOnly(token, rv, sec) ==
    IF JwtDecode(token, sec, FALSE, {}) # "ok" THEN FALSE
    ELSE TokenHash(token) \in rv

\* is_token_revoked
is_token_revoked(token, rv, sec) ==
    IF JwtDecode(token, sec, FALSE, {}) # "ok" THEN FALSE
    ELSE IF token.jti # <<>> /\ JtiEntry(token.jti) \in rv THEN TRUE
    ELSE TokenHash(token) \in rv

\* revoke_token: the answer and the revocation set afterwards
\* cleanup_expired_tokens emptying the blacklist
cleanup_expired_tokens_Clear(rv) ==
    [removed |-> Cardinality(rv), revoked |-> {}]

\* cleanup_expired_tokens: the count it returns and the blacklist afterwards;
\* nothing is removed between the two len() calls
cleanup_expired_tokens(rv) ==
    LET before_count == Cardinality(rv) IN
    [removed |-> before_count - Cardinality(rv), revoked |-> rv]

revoke_token(token, rv, sec) ==
    IF JwtDecode(token, sec, FALSE, {}) # "ok" THEN [ok |-> FALSE, revoked |-> rv]
    ELSE IF token.jti # <<>>
         THEN [ok |-> TRUE, revoked |-> rv \cup {JtiEntry(token.jti)}]
    ELSE [ok |-> TRUE, revoked |-> rv \cup {TokenHash(token)}]

RequiredClaims == {"sub", "exp", "iat", "type", "jti"}

\* decode_token: ok, or the InvalidTokenError it raises (every failure of
\* jwt.decode is re-raised as InvalidTokenError; error keeps what failed)
decode_token(token, rv, sec) ==
    IF token = EmptyToken THEN [ok |-> FALSE, error |-> "Token cannot be empty"]
    ELSE LET r == JwtDecode(token, sec, TRUE, RequiredClaims) IN
         IF r = "ExpiredSignatureError" THEN [ok |-> FALSE, error |-> "Token has expired"]
         ELSE IF r = "InvalidSignatureError"
              THEN [ok |-> FALSE, error |-> "Invalid token signature"]
         ELSE IF r # "ok" THEN [ok |-> FALSE, error |-> r]
         ELSE IF token.sub = <<>> THEN [ok |-> FALSE, error |-> "Token missing subject"]
         ELSE IF token.type \notin {"access", "refresh"}
              THEN [ok |-> FALSE, error |-> "Invalid token type"]
         ELSE IF is_token_revoked(token, rv, sec)
              THEN [ok |-> FALSE, error |-> "Token has been revoked"]
         ELSE [ok |-> TRUE, error |-> ""]

NoUserInfo == [user_id |-> -1, username |-> <<>>, is_admin |-> FALSE, token_type |-> ""]

\* get_user_from_token: the user-info record, or NoUserInfo for None
get_user_from_token(token, rv, sec) ==
    IF ~decode_token(token, rv, sec).ok THEN NoUserInfo
    ELSE IF IntOfStr(token.sub) = -1 THEN NoUserInfo
    ELSE [user_id |-> IntOfStr(token.sub), username |-> token.username,
          is_admin |-> token.is_admin, token_type |-> token.type]

-----------------------------------------------------------------------------
(* Request DTOs                                                            *)

IsUpperChar(c) == c \in UpperSet
IsLowerChar(c) == c \in LowerSet
IsDigitChar(c) == c \in DigitSet

\* RegisterRequest.validate_username
validate_username(v) ==
    IF Len(v) = 0 \/ Len(Strip(v)) = 0 THEN [ok |-> FALSE, value |-> <<>>]
    ELSE IF Len(Strip(v)) < 3 THEN [ok |-> FALSE, value |-> <<>>]
    ELSE [ok |-> TRUE, value |-> Lower(Strip(v))]

\* RegisterRequest.validate_password
validate_password(v) ==
    /\ Len(v) >= 8
    /\ \E i \in 1..Len(v) : IsUpperChar(v[i])
    /\ \E i \in 1..Len(v) : IsLowerChar(v[i])
    /\ \E i \in 1..Len(v) : IsDigitChar(v[i])

\* LoginRequest.validate_username
login_validate_username(v) ==
    IF Len(v) = 0 \/ Len(Strip(v)) = 0 THEN [ok |-> FALSE, value |-> <<>>]
    ELSE [ok |-> TRUE, value |-> Lower(Strip(v))]

\* LoginRequest.validate_password
login_validate_password(v) == Len(v) >= 6

\* RegisterRequest(...): the validated request, or ok = FALSE for the
\* ValidationError (HTTP 422).  The e-mail addresses used are well formed,
\* and EmailStr hands them on as they came.
RegisterRequest(username, password, email) ==
    LET u == validate_username(username) IN
    [ok |-> u.ok /\ validate_password(password),
     username |-> u.value, password |-> password, email |-> email]

\* LoginRequest(...)
LoginRequest(username, password) ==
    LET u == login_validate_username(username) IN
    [ok |-> u.ok /\ login_validate_password(password),
     username |-> u.value, password |-> password]

-----------------------------------------------------------------------------
(* UserRepository                                                          *)

NoUser ==
    [id |-> 0, username |-> <<>>, email |-> <<>>, hashed_password |-> NoHash,
     is_admin |-> FALSE, is_active |-> FALSE, last_login_date |-> -1]

\* User(...): the entity create_user builds (id None until persisted,
\* last_login_date None)
User(username, email, hashed_password, is_admin) ==
    [id |-> 0, username |-> username, email |-> email,
     hashed_password |-> hashed_password, is_admin |-> is_admin,
     is_active |-> TRUE, last_login_date |-> -1]

\* query(...).filter(...).first(): the first row that matches, or NoUser
FirstUser(tbl, Match(_)) ==
    IF \E i \in 1..Len(tbl) : Match(tbl[i])
    THEN tbl[CHOOSE i \in 1..Len(tbl) :
                 Match(tbl[i]) /\ \A j \in 1..(i - 1) : ~Match(tbl[j])]
    ELSE NoUser

\* UserRepository.get_by_id
get_by_id(tbl, user_id) ==
    LET Match(u) == u.id = user_id IN FirstUser(tbl, Match)

\* UserRepository.get_by_username
get_by_username(tbl, username) ==
    LET Match(u) == u.username = username IN FirstUser(tbl, Match)

\* UserRepository.get_by_email
get_by_email(tbl, email) ==
    LET Match(u) == u.email = email IN FirstUser(tbl, Match)

\* UserRepository.create: the table with the row added under the next id
repo_create(tbl, user) == Append(tbl, [user EXCEPT !.id = Len(tbl) + 1])

\* UserRepository.update: the row with the entity's id takes its fields
repo_update(tbl, user) ==
    [i \in 1..Len(tbl) |-> IF tbl[i].id = user.id THEN user ELSE tbl[i]]

-----------------------------------------------------------------------------
(* AuthenticationService                                                   *)

\* authenticate_user: the user, or NoUser for None
authenticate_user(tbl, username, password) ==
    IF Len(username) = 0 \/ Len(password) = 0 THEN NoUser
    ELSE LET user == get_by_username(tbl, Strip(Lower(username))) IN
         IF user = NoUser THEN NoUser
         ELSE IF ~verify_password(password, user.hashed_password) THEN NoUser
         ELSE IF ~user.is_active THEN NoUser
         ELSE user

\* create_user without its own look-ups of the normalized username and e-mail
create_user_NoChecks(tbl, username, password, email, is_admin, salt) ==
    IF Len(username) = 0 \/ Len(password) = 0 \/ Len(email) = 0
    THEN [error |-> "Username, password, and email are required", users |-> tbl]
    ELSE [error |-> "",
          users |-> repo_create(tbl,
                        User(Strip(Lower(username)), Strip(Lower(email)),
                             hash_password(password, salt), is_admin))]

\* create_user: the ValueError raised ("" for none) and the table afterwards
create_user(tbl, username, password, email, is_admin, salt) ==
    IF Len(username) = 0 \/ Len(password) = 0 \/ Len(email) = 0
    THEN [error |-> "Username, password, and email are required", users |-> tbl]
    ELSE IF get_by_username(tbl, Strip(Lower(username))) # NoUser
    THEN [error |-> "Username already exists", users |-> tbl]
    ELSE IF get_by_email(tbl, Strip(Lower(email))) # NoUser
    THEN [error |-> "Email already registered", users |-> tbl]
    ELSE [error |-> "",
          users |-> repo_create(tbl,
                        User(Strip(Lower(username)), Strip(Lower(email)),
                             hash_password(password, salt), is_admin))]

\* update_last_login
update_last_login(tbl, user_id, sec) ==
    LET user == get_by_id(tbl, user_id) IN
    IF user = NoUser THEN tbl
    ELSE repo_update(tbl, [user EXCEPT !.last_login_date = sec])

\* deactivate_user / activate_user
set_active(tbl, user_id, flag) ==
    LET user == get_by_id(tbl, user_id) IN
    IF user = NoUser THEN tbl
    ELSE repo_update(tbl, [user EXCEPT !.is_active = flag])

\* change_password without the verification of the old password
change_password_NoVerify(tbl, user_id, old_password, new_password, salt) ==
    LET user == get_by_id(tbl, user_id) IN
    IF Len(old_password) = 0 \/ Len(new_password) = 0 THEN [ok |-> FALSE, users |-> tbl]
    ELSE IF user = NoUser THEN [ok |-> FALSE, users |-> tbl]
    ELSE [ok |-> TRUE,
          users |-> repo_update(tbl, [user EXCEPT
                                        !.hashed_password = hash_password(new_password, salt)])]

\* change_password: what it returns and the users table afterwards
change_password(tbl, user_id, old_password, new_password, salt) ==
    LET user == get_by_id(tbl, user_id) IN
    IF Len(old_password) = 0 \/ Len(new_password) = 0 THEN [ok |-> FALSE, users |-> tbl]
    ELSE IF user = NoUser THEN [ok |-> FALSE, users |-> tbl]
    ELSE IF ~verify_password(old_password, user.hashed_password)
    THEN [ok |-> FALSE, users |-> tbl]
    ELSE [ok |-> TRUE,
          users |-> repo_update(tbl, [user EXCEPT
                                        !.hashed_password = hash_password(new_password, salt)])]

-----------------------------------------------------------------------------
(* Authentication use cases                                                *)

AdminUsernames ==
    { <<"a", "d", "m", "i", "n">>,
      <<"m", "a", "r", "i", "o", "_", "g", "o", "n", "z", "a", "l", "e", "z">> }

\* the auto-admin rule of RegisterUseCase.execute with the list emptied
auto_admin_Never(username) == FALSE

\* the auto-admin rule of RegisterUseCase.execute
auto_admin(username) == username \in AdminUsernames

\* RegisterUseCase.execute
RegisterUseCase_execute(tbl, request, salt) ==
    IF get_by_username(tbl, request.username) # NoUser
    THEN [error |-> "Username already exists", users |-> tbl]
    ELSE IF get_by_email(tbl, request.email) # NoUser
    THEN [error |-> "Email already registered", users |-> tbl]
    ELSE create_user(tbl, request.username, request.password, request.email,
                     auto_admin(request.username), salt)

\* The DTOs are written for BaseModel with no version pinned: "validator"
\* is the decorator of version 1, kept by version 2, and "from_attributes"
\* is a Config key of version 2, ignored by version 1
PydanticVersions == {1, 2}

\* TokenResponse(**fields): "" or the ValidationError raised.  A field
\* annotated Optional[str] with no default may be left out under version 1
\* (it is None then) and is required under version 2.
TokenResponse(given, version) ==
    LET required == IF version = 1
                    THEN {"access_token", "expires_in"}
                    ELSE {"access_token", "refresh_token", "expires_in"}
    IN  IF required \subseteq given THEN ""
        ELSE "1 validation error for TokenResponse"

NoTokens == [access_token |-> EmptyToken, refresh_token |-> EmptyToken, expires_in |-> 0]

\* LoginUseCase.execute with the active flag never looked at
LoginUseCase_execute_NoActiveCheck(tbl, request, sec, usec) ==
    LET user == get_by_username(tbl, Strip(Lower(request.username))) IN
    IF user = NoUser \/ ~verify_password(request.password, user.hashed_password)
    THEN [error |-> "Invalid username or password", users |-> tbl, tokens |-> NoTokens]
    ELSE [error |-> "",
          users |-> update_last_login(tbl, user.id, sec),
          tokens |->
            [access_token |->
                generate_access_token(user.id, user.username, user.is_admin,
                                      Minutes(30), sec, usec),
             refresh_token |->
                generate_refresh_token(user.id, user.username, sec, usec + 1),
             expires_in |-> 30 * 60]]

\* LoginUseCase.execute: the ValueError raised ("" for none), the table
\* afterwards and the TokenResponse
LoginUseCase_execute(tbl, request, sec, usec) ==
    LET user == authenticate_user(tbl, request.username, request.password) IN
    IF user = NoUser
    THEN [error |-> "Invalid username or password", users |-> tbl, tokens |-> NoTokens]
    ELSE IF ~user.is_active
    THEN [error |-> "Account is deactivated", users |-> tbl, tokens |-> NoTokens]
    ELSE [error |-> "",
          users |-> update_last_login(tbl, user.id, sec),
          tokens |->
            [access_token |->
                generate_access_token(user.id, user.username, user.is_admin,
                                      Minutes(30), sec, usec),
             refresh_token |->
                generate_refresh_token(user.id, user.username, sec, usec + 1),
             expires_in |-> 30 * 60]]

\* RefreshTokenUseCase.execute: every failure is raised as
\* ValueError("Invalid refresh token: ..."); error keeps what failed.  The
\* TokenResponse is built without a refresh_token.
RefreshTokenUseCase_execute(tbl, token, rv, sec, usec, version) ==
    LET d == decode_token(token, rv, sec)
        user == get_by_id(tbl, IntOfStr(token.sub))
    IN  IF ~d.ok THEN [error |-> d.error, tokens |-> NoTokens]
        ELSE IF token.sub = <<>> THEN [error |-> "Invalid token", tokens |-> NoTokens]
        ELSE IF is_token_revoked(token, rv, sec)
        THEN [error |-> "Token has been revoked", tokens |-> NoTokens]
        ELSE IF IntOfStr(token.sub) = -1
        THEN [error |-> "invalid literal for int()", tokens |-> NoTokens]
        ELSE IF user = NoUser \/ ~user.is_active
        THEN [error |-> "User not found or inactive", tokens |-> NoTokens]
        ELSE IF TokenResponse({"access_token", "token_type", "expires_in"}, version) # ""
        THEN [error |-> TokenResponse({"access_token", "token_type", "expires_in"}, version),
              tokens |-> NoTokens]
        ELSE [error |-> "",
              tokens |->
                [access_token |->
                    generate_access_token(user.id, user.username, user.is_admin,
                                          Minutes(30), sec, usec),
                 refresh_token |-> EmptyToken,
                 expires_in |-> 30 * 60]]

\* ChangePasswordRequest(...): ok = FALSE for a ValidationError
ChangePasswordRequest(old_password, new_password) ==
    [ok |-> validate_password(new_password), old_password |-> old_password,
     new_password |-> new_password]

\* ChangePasswordUseCase.execute: the ValueError raised ("" for none) and the
\* users table afterwards
ChangePasswordUseCase_execute(tbl, user_id, request, salt) ==
    LET r == change_password(tbl, user_id, request.old_password, request.new_password, salt)
    IN  IF ~r.ok THEN [error |-> "Invalid current password", users |-> tbl]
        ELSE [error |-> "", users |-> r.users]

\* LogoutUseCase.execute: the revocation set afterwards (the use case
\* returns True whatever revoke_token answers)
LogoutUseCase_execute(access_token, refresh_token, rv, sec) ==
    LET rv1 == revoke_token(access_token, rv, sec).revoked IN
    IF refresh_token # EmptyToken THEN revoke_token(refresh_token, rv1, sec).revoked
    ELSE rv1

-----------------------------------------------------------------------------
(* LocalFileStorageService                                                 *)

max_file_size == 10 * 1024 * 1024

Contains(s, pat) ==
    \E i \in 1..(Len(s) - Len(pat) + 1) : SubSeq(s, i, i + Len(pat) - 1) = pat

\* the highest index of c in s, 0 when c is not in s
LastIndexOf(s, c) ==
    IF \E i \in 1..Len(s) : s[i] = c
    THEN CHOOSE i \in 1..Len(s) : s[i] = c /\ \A j \in (i + 1)..Len(s) : s[j] # c
    ELSE 0

RECURSIVE RStripSlash(_)
RStripSlash(s) ==
    IF Len(s) > 1 /\ s[Len(s)] = "/" THEN RStripSlash(SubSeq(s, 1, Len(s) - 1)) ELSE s

RECURSIVE LStripSlash(_)
LStripSlash(s) == IF Len(s) > 0 /\ Head(s) = "/" THEN LStripSlash(Tail(s)) ELSE s

\* Path(filename).name
PathName(filename) ==
    LET p == RStripSlash(filename)
        n == SubSeq(p, LastIndexOf(p, "/") + 1, Len(p))
    IN  IF n = <<".">> THEN <<>> ELSE n

\* Path(filename).suffix
PathSuffix(filename) ==
    LET n == PathName(filename)
        i == LastIndexOf(n, ".")
    IN  IF i > 1 /\ i < Len(n) THEN SubSeq(n, i, Len(n)) ELSE <<>>

\* strftime("%Y%m%d%H%M%S") of the clock: one digit string per second
Timestamp(sec) == StrOfInt(sec)

DangerousChars == {"<", ">", ":", "\"", "|", "?", "*"}

\* _sanitize_filename
sanitize_filename(filename, sec) ==
    IF Len(filename) = 0
    THEN <<"u", "n", "k", "n", "o", "w", "n", "_", "f", "i", "l", "e">>
    ELSE LET n == PathName(filename)
             safe == [i \in 1..Len(n) |->
                         IF n[i] \in DangerousChars \/ n[i] = " " THEN "_" ELSE n[i]]
         IN  IF Len(safe) = 0 \/ safe = <<".">> \/ safe = <<".", ".">>
             THEN <<"f", "i", "l", "e", "_">> \o Timestamp(sec)
             ELSE safe

ExecutableExtensions ==
    { <<".", "e", "x", "e">>, <<".", "b", "a", "t">>, <<".", "c", "m", "d">>,
      <<".", "c", "o", "m">>, <<".", "p", "i", "f">>, <<".", "s", "c", "r">>,
      <<".", "v", "b", "s">>, <<".", "j", "s">>, <<".", "j", "a", "r">>,
      <<".", "s", "h">>, <<".", "p", "y">>, <<".", "p", "l">>,
      <<".", "p", "h", "p">>, <<".", "a", "s", "p">> }

\* _has_dangerous_patterns
has_dangerous_patterns(filename) ==
    \/ Contains(Lower(filename), <<".", ".">>)
    \/ Contains(Lower(filename), <<"/">>)
    \/ Contains(Lower(filename), <<"\\">>)
    \/ Lower(PathSuffix(filename)) \in ExecutableExtensions

ImageExtensions ==
    { <<"p", "n", "g">>, <<"j", "p", "g">>, <<"j", "p", "e", "g">>,
      <<"g", "i", "f">>, <<"w", "e", "b", "p">> }

RECURSIVE LStripDot(_)
LStripDot(s) == IF Len(s) > 0 /\ Head(s) = "." THEN LStripDot(Tail(s)) ELSE s

\* validate_file
validate_file(filename, file_size, allowed_extensions) ==
    /\ Len(filename) > 0
    /\ file_size > 0 /\ file_size <= max_file_size
    /\ LStripDot(Lower(PathSuffix(filename))) \in allowed_extensions
    /\ ~has_dangerous_patterns(filename)

NoPath == <<>>

\* save_file: the ValueError raised ("" for none), the path returned and the
\* stored files afterwards.  A file is named by its path below the base
\* directory (a file elsewhere, by its absolute path); writing to a path that
\* holds a file replaces that file.
save_file(fs, file_size, filename, directory, sec) ==
    IF file_size = 0
    THEN [error |-> "File content cannot be empty", path |-> NoPath, files |-> fs]
    ELSE IF file_size > max_file_size
    THEN [error |-> "File size exceeds maximum allowed size", path |-> NoPath, files |-> fs]
    ELSE LET final == Timestamp(sec) \o <<"_">> \o sanitize_filename(filename, sec)
             stored == directory \o <<"/">> \o final
         IN  [error |-> "", path |-> <<"/">> \o stored, files |-> fs \cup {stored}]

\* The components of a path as pathlib keeps them: the parts between the
\* slashes, empty parts and "." left out
RECURSIVE PathParts(_)
PathParts(s) ==
    IF Len(s) = 0 THEN <<>>
    ELSE LET i == IF \E k \in 1..Len(s) : s[k] = "/"
                  THEN CHOOSE k \in 1..Len(s) : s[k] = "/" /\ \A j \in 1..(k - 1) : s[j] # "/"
                  ELSE Len(s) + 1
             part == SubSeq(s, 1, i - 1)
             rest == PathParts(SubSeq(s, i + 1, Len(s)))
         IN  IF part = <<>> \/ part = <<".">> THEN rest ELSE <<part>> \o rest

\* str() of an absolute path with these components
RECURSIVE PathStr(_)
PathStr(parts) ==
    IF Len(parts) = 0 THEN <<>> ELSE <<"/">> \o Head(parts) \o PathStr(Tail(parts))

\* The working directory of the server and, in it, the base directory
\* "static" of the storage
WorkingDirectory == << <<"a", "p", "p">> >>
base_path == WorkingDirectory \o << <<"s", "t", "a", "t", "i", "c">> >>

\* The directories there are: the base directory with its parents, images
\* below it, and a directory static2 beside it
Directories ==
    {<<>>, WorkingDirectory, base_path,
     base_path \o << <<"i", "m", "a", "g", "e", "s">> >>,
     WorkingDirectory \o << <<"s", "t", "a", "t", "i", "c", "2">> >>}

\* The name a file at an absolute path goes by in the stored files: its path
\* below the base directory, or its absolute path when it is elsewhere
FileAt(parts) ==
    IF Len(parts) > Len(base_path) /\ SubSeq(parts, 1, Len(base_path)) = base_path
    THEN Tail(PathStr(SubSeq(parts, Len(base_path) + 1, Len(parts))))
    ELSE PathStr(parts)

\* Path.resolve() as the system walks the path from the directory at, for a
\* path that exists: ".." leads to the parent, the root being its own parent;
\* <<"?">> when a part on the way is no directory
RECURSIVE ResolvePath(_, _)
ResolvePath(at, parts) ==
    IF Len(parts) = 0 THEN at
    ELSE IF at \notin Directories THEN <<"?">>
    ELSE IF Head(parts) = <<".", ".">>
    THEN ResolvePath(IF Len(at) = 0 THEN at ELSE SubSeq(at, 1, Len(at) - 1), Tail(parts))
    ELSE ResolvePath(Append(at, Head(parts)), Tail(parts))

StartsWith(s, prefix) == Len(s) >= Len(prefix) /\ SubSeq(s, 1, Len(prefix)) = prefix

\* delete_file: the answer and the stored files afterwards
delete_file(fs, file_path) ==
    LET clean_path == LStripSlash(file_path)
        resolved == ResolvePath(base_path, PathParts(clean_path))
    IN  IF resolved # <<"?">> /\ FileAt(resolved) \in fs
        THEN IF ~StartsWith(PathStr(resolved), PathStr(base_path))
             THEN [ok |-> FALSE, files |-> fs]
             ELSE [ok |-> TRUE, files |-> fs \ {FileAt(resolved)}]
        ELSE [ok |-> FALSE, files |-> fs]

-----------------------------------------------------------------------------
(* Dashboard entity and DashboardRepository                                *)

NoDashboard ==
    [id |-> 0, titulo |-> "", categoria |-> "", url_imagen_preview |-> NoPath,
     created_by |-> 0]

\* Dashboard.can_be_edited_by with the creator left out
can_be_edited_by_AdminOnly(dashboard, user_id, is_admin) == is_admin

\* Dashboard.can_be_edited_by
can_be_edited_by(dashboard, user_id, is_admin) ==
    is_admin \/ dashboard.created_by = user_id

\* Dashboard.can_be_deleted_by
can_be_deleted_by(dashboard, user_id, is_admin) ==
    is_admin \/ dashboard.created_by = user_id

\* DashboardRepository.get_by_id: the first row with the id, or NoDashboard
dashboard_get_by_id(tbl, dashboard_id) ==
    IF \E i \in 1..Len(tbl) : tbl[i].id = dashboard_id
    THEN tbl[CHOOSE i \in 1..Len(tbl) :
                 tbl[i].id = dashboard_id /\ \A j \in 1..(i - 1) : tbl[j].id # dashboard_id]
    ELSE NoDashboard

\* DashboardRepository.create: the row added under the next id
dashboard_create(tbl, dashboard, next_id) ==
    Append(tbl, [dashboard EXCEPT !.id = next_id])

\* DashboardRepository.delete: the table without the rows of that id
dashboard_delete(tbl, dashboard_id) ==
    SelectSeq(tbl, LAMBDA d : d.id # dashboard_id)

-----------------------------------------------------------------------------
(* Dashboard use cases                                                     *)

\* GetAllDashboardsUseCase.execute: the ValueError raised ("" for none) and
\* the DashboardListResponse (categories as the set that sorted() lists)
GetAllDashboardsUseCase_execute(utbl, dtbl, current_user_id) ==
    LET current_user == get_by_id(utbl, current_user_id) IN
    IF current_user = NoUser
    THEN [error |-> "User not found", dashboards |-> <<>>, total |-> 0,
          categories |-> {}]
    ELSE [error |-> "",
          dashboards |->
            [i \in 1..Len(dtbl) |->
                [id |-> dtbl[i].id,
                 created_by |-> dtbl[i].created_by,
                 can_edit |-> can_be_edited_by(dtbl[i], current_user.id,
                                               current_user.is_admin),
                 can_delete |-> can_be_deleted_by(dtbl[i], current_user.id,
                                                  current_user.is_admin)]],
          total |-> Len(dtbl),
          categories |-> {dtbl[i].categoria : i \in 1..Len(dtbl)}]

\* CreateDashboardUseCase.execute: the ValueError raised ("" for none), the
\* dashboards table and the stored files afterwards.  A screenshot is its
\* size and its file name (size 0 or an empty name: no screenshot).
CreateDashboardUseCase_execute(dtbl, fs, next_id, request, screenshot, current_user_id, sec) ==
    LET upload == screenshot.size > 0 /\ Len(screenshot.filename) > 0
        saved  == save_file(fs, screenshot.size, screenshot.filename,
                            <<"i", "m", "a", "g", "e", "s">>, sec)
    IN  IF upload /\ ~validate_file(screenshot.filename, screenshot.size, ImageExtensions)
        THEN [error |-> "Invalid image file", dashboards |-> dtbl, files |-> fs]
        ELSE IF upload /\ saved.error # ""
        THEN [error |-> saved.error, dashboards |-> dtbl, files |-> fs]
        ELSE [error |-> "",
              dashboards |->
                dashboard_create(dtbl,
                    [id |-> 0, titulo |-> request.titulo,
                     categoria |-> request.categoria,
                     url_imagen_preview |-> IF upload THEN saved.path ELSE NoPath,
                     created_by |-> current_user_id],
                    next_id),
              files |-> IF upload THEN saved.files ELSE fs]

\* DeleteDashboardUseCase.execute, "Delete associated image", leaving the
\* image where it is
DeleteDashboardUseCase_delete_image_Skip(fs, dashboard) == fs

\* DeleteDashboardUseCase.execute, "Delete associated image": the stored
\* files afterwards
DeleteDashboardUseCase_delete_image(fs, dashboard) ==
    IF dashboard.url_imagen_preview # NoPath
    THEN delete_file(fs, dashboard.url_imagen_preview).files
    ELSE fs

\* DeleteDashboardUseCase.execute with the rule of the Dashboard entity
\* (creator or administrator) in place of its own
DeleteDashboardUseCase_execute_CreatorToo(utbl, dtbl, fs, dashboard_id, current_user_id) ==
    LET current_user == get_by_id(utbl, current_user_id)
        dashboard == dashboard_get_by_id(dtbl, dashboard_id)
    IN  IF current_user = NoUser
        THEN [error |-> "User not found", dashboards |-> dtbl, after_image |-> fs,
              files |-> fs]
        ELSE IF dashboard = NoDashboard
        THEN [error |-> "Dashboard not found", dashboards |-> dtbl, after_image |-> fs,
              files |-> fs]
        ELSE IF ~can_be_deleted_by(dashboard, current_user.id, current_user.is_admin)
        THEN [error |-> "Only administrators can delete dashboards",
              dashboards |-> dtbl, after_image |-> fs, files |-> fs]
        ELSE [error |-> "",
              dashboards |-> dashboard_delete(dtbl, dashboard_id),
              after_image |-> DeleteDashboardUseCase_delete_image(fs, dashboard),
              files |-> DeleteDashboardUseCase_delete_image(fs, dashboard)]

\* DeleteDashboardUseCase.execute: the ValueError raised ("" for none), the
\* stored files when "Delete associated image" is done and "Delete
\* dashboard" is yet to come, and the dashboards table and the stored files
\* afterwards
DeleteDashboardUseCase_execute(utbl, dtbl, fs, dashboard_id, current_user_id) ==
    LET current_user == get_by_id(utbl, current_user_id)
        dashboard == dashboard_get_by_id(dtbl, dashboard_id)
    IN  IF current_user = NoUser
        THEN [error |-> "User not found", dashboards |-> dtbl, after_image |-> fs,
              files |-> fs]
        ELSE IF dashboard = NoDashboard
        THEN [error |-> "Dashboard not found", dashboards |-> dtbl, after_image |-> fs,
              files |-> fs]
        ELSE IF ~current_user.is_admin
        THEN [error |-> "Only administrators can delete dashboards",
              dashboards |-> dtbl, after_image |-> fs, files |-> fs]
        ELSE [error |-> "",
              dashboards |-> dashboard_delete(dtbl, dashboard_id),
              after_image |-> DeleteDashboardUseCase_delete_image(fs, dashboard),
              files |-> DeleteDashboardUseCase_delete_image(fs, dashboard)]

\* The characters of the category names the dashboards carry
CategoryChars(name) ==
    CASE name = "Operations" -> <<"O", "p", "e", "r", "a", "t", "i", "o", "n", "s">>
      [] name = "Finance" -> <<"F", "i", "n", "a", "n", "c", "e">>
      [] name = "finance" -> <<"f", "i", "n", "a", "n", "c", "e">>
      [] name = "Workshop" -> <<"W", "o", "r", "k", "s", "h", "o", "p">>
      [] name = "Human Resources"
            -> <<"H", "u", "m", "a", "n", " ", "R", "e", "s", "o", "u", "r", "c", "e", "s">>
      [] name = "Accounting" -> <<"A", "c", "c", "o", "u", "n", "t", "i", "n", "g">>
      [] name = "Marketing" -> <<"M", "a", "r", "k", "e", "t", "i", "n", "g">>
      [] OTHER -> <<>>

\* item.get('category_name', '').lower() == category.lower()
SameCategory(a, b) == Lower(CategoryChars(a)) = Lower(CategoryChars(b))

\* DashboardRepository.get_featured_by_categories, the loop over the
\* dashboards from the k-th on for one category: the list afterwards
RECURSIVE featured_items(_, _, _, _, _)
featured_items(data, category, limit, featured, k) ==
    IF k > Len(data) THEN featured
    ELSE IF SameCategory(data[k].categoria, category) THEN Append(featured, data[k])
    ELSE IF Len(featured) >= limit THEN featured
    ELSE featured_items(data, category, limit, featured, k + 1)

\* DashboardRepository.get_featured_by_categories, the loop over the
\* categories from the c-th on
RECURSIVE featured_categories(_, _, _, _, _)
featured_categories(data, categories, limit, featured, c) ==
    IF c > Len(categories) THEN featured
    ELSE LET f == featured_items(data, categories[c], limit, featured, 1)
         IN  IF Len(f) >= limit THEN f
             ELSE featured_categories(data, categories, limit, f, c + 1)

\* DashboardRepository.get_featured_by_categories
get_featured_by_categories(tbl, categories, limit) ==
    featured_categories(tbl, categories, limit, <<>>, 1)

priority_categories ==
    <<"Operations", "Finance", "Workshop", "Human Resources", "Accounting">>

\* GetFeaturedDashboardsUseCase.execute: the dashboards the
\* FeaturedDashboardResponse list is made of
GetFeaturedDashboardsUseCase_execute(dtbl, limit) ==
    get_featured_by_categories(dtbl, priority_categories, limit)

-----------------------------------------------------------------------------
(* DatabaseConfig                                                          *)

Backends == {"mssql", "postgresql", "sqlite"}

\* How the setup of a backend goes: without failure, with its modules not
\* found, or with the test connection (for SQLite, init_database) failing
SetupOutcomes == {"ok", "import_error", "connect_error"}

\* DatabaseConfig.__init__ before _setup_database: SessionLocal "" is None;
\* state tells how __init__ has ended
NewDatabase(selector) ==
    [selector |-> selector, database_type |-> selector, SessionLocal |-> "",
     state |-> "new"]

\* _setup_sqlite, _setup_postgresql, _setup_mssql: whether it raises, and the
\* object afterwards (the session factory is assigned before the connection
\* is tested)
setup_backend(cfg, backend, outcome) ==
    IF outcome = "ok" THEN [raised |-> FALSE, cfg |-> [cfg EXCEPT !.SessionLocal = backend]]
    ELSE IF outcome = "import_error" THEN [raised |-> TRUE, cfg |-> cfg]
    ELSE [raised |-> TRUE, cfg |-> [cfg EXCEPT !.SessionLocal = backend]]

\* _setup_database, every backend going as outcome says: the object
\* afterwards; state "configured" when a setup has gone through, "failed"
\* when the error was printed and nothing more was tried, "raised" when the
\* exception of the fallback's setup has left __init__
setup_database(cfg, outcome) ==
    LET first == IF cfg.database_type = "mssql" THEN "mssql"
                 ELSE IF cfg.database_type = "sqlite" THEN "sqlite"
                 ELSE "postgresql"
        tried == setup_backend(cfg, first, outcome[first])
        fallback == IF cfg.database_type = "mssql" THEN "postgresql" ELSE "sqlite"
        second == setup_backend([tried.cfg EXCEPT !.database_type = fallback], fallback,
                                outcome[fallback])
    IN  IF ~tried.raised THEN [tried.cfg EXCEPT !.state = "configured"]
        ELSE IF cfg.database_type \in {"mssql", "postgresql"}
        THEN [second.cfg EXCEPT !.state = IF second.raised THEN "raised" ELSE "configured"]
        ELSE [tried.cfg EXCEPT !.state = "failed"]

\* A database session of a request: open or closed, how far the request is
\* (its handler running, done (returned or raised), or the request ended), the
\* rows it has added and not committed, and the rows it has committed, which
\* every other session sees
Session(backend) ==
    [backend |-> backend, db |-> "open", request |-> "running", handler |-> "",
     pending |-> 0, committed |-> 0]

\* UserRepository.create on the session: the row is added and committed at
\* once; when the commit raises, the row stays pending and the exception
\* leaves the handler
repository_create(session, commit_ok) ==
    IF commit_ok THEN [session EXCEPT !.committed = @ + 1]
    ELSE [session EXCEPT !.pending = @ + 1, !.request = "done", !.handler = "raised"]

\* get_db, the finally block, leaving the session open when the handler has
\* raised
get_db_finally_OnReturnOnly(session) ==
    IF session.handler = "returned" THEN [session EXCEPT !.db = "closed", !.pending = 0]
    ELSE session

\* get_db, the finally block: db.close(), which drops what is pending; nothing
\* is committed and nothing that is committed is taken back
get_db_finally(session) == [session EXCEPT !.db = "closed", !.pending = 0]

-----------------------------------------------------------------------------
(* The migration of the JSON document to the enterprise schema             *)

\* WHERE column = ? under the collation of the database: case-sensitive (CS)
\* or case-insensitive (CI)
SqlEquals(a, b, collation) == IF collation = "CI" THEN Lower(a) = Lower(b) ELSE a = b

\* DataMigration.migrate_users with the check for an existing user left out
RECURSIVE migrate_users_NoCheck(_, _, _)
migrate_users_NoCheck(tbl, source, collation) ==
    IF Len(source) = 0 THEN tbl
    ELSE migrate_users_NoCheck(
             Append(tbl, [UserID |-> Len(tbl) + 1, Username |-> Head(source).username,
                          Role |-> IF Head(source).is_admin THEN "Admin" ELSE "User"]),
             Tail(source), collation)

\* DataMigration.migrate_users: the rows of [Security].[Users] afterwards
RECURSIVE migrate_users(_, _, _)
migrate_users(tbl, source, collation) ==
    IF Len(source) = 0 THEN tbl
    ELSE IF \E i \in 1..Len(tbl) : SqlEquals(tbl[i].Username, Head(source).username, collation)
    THEN migrate_users(tbl, Tail(source), collation)
    ELSE migrate_users(
             Append(tbl, [UserID |-> Len(tbl) + 1, Username |-> Head(source).username,
                          Role |-> IF Head(source).is_admin THEN "Admin" ELSE "User"]),
             Tail(source), collation)

\* DataMigration.migrate_dashboards, the loop over the tableros: the rows of
\* [Dashboard].[Dashboards] afterwards
RECURSIVE migrate_dashboards(_, _, _, _)
migrate_dashboards(tbl, source, default_user_id, collation) ==
    IF Len(source) = 0 THEN tbl
    ELSE IF \E i \in 1..Len(tbl) :
                SqlEquals(tbl[i].DashboardTitle, Head(source).titulo, collation)
    THEN migrate_dashboards(tbl, Tail(source), default_user_id, collation)
    ELSE migrate_dashboards(
             Append(tbl, [DashboardID |-> Len(tbl) + 1,
                          DashboardTitle |-> Head(source).titulo,
                          CreatedBy |-> default_user_id]),
             Tail(source), default_user_id, collation)

\* DataMigration.run_migration, users and dashboards: the exception that ends
\* it ("" for none) and the committed rows afterwards.  SELECT TOP 1 UserID
\* finds no row when there is no user, and fetchone()[0] raises
run_migration(utbl, dtbl, document, collation) ==
    LET migrated == migrate_users(utbl, document.users, collation)
    IN  IF Len(migrated) = 0
        THEN [error |-> "TypeError", users |-> migrated, dashboards |-> dtbl]
        ELSE [error |-> "", users |-> migrated,
              dashboards |-> migrate_dashboards(dtbl, document.tableros,
                                                migrated[1].UserID, collation)]

\* The legacy relational entry points main.py (adapter variant) and
\* main_postgres.py (mid-tier variant)
ACCESS_TOKEN_EXPIRE_MINUTES == 30

\* no token in the answer of a legacy login
NoLegacyToken == [sub |-> <<>>, exp |-> 0]

\* create_access_token of both entry points: the claims of the encoded token
legacy_create_access_token(sub, expires_delta, sec) == [sub |-> sub, exp |-> sec + expires_delta]

\* authenticate_user of main.py, through adapter.get_user_by_username and
\* adapter.verify_user_password
main_authenticate_user(tbl, username, password) ==
    LET user == get_by_username(tbl, username) IN
    IF user = NoUser THEN NoUser
    ELSE IF ~verify_password(password, user.hashed_password) THEN NoUser
    ELSE user

\* authenticate_user of main_postgres.py
main_postgres_authenticate_user(tbl, username, password) ==
    LET user == get_by_username(tbl, username) IN
    IF user = NoUser THEN NoUser
    ELSE IF ~verify_password(password, user.hashed_password) THEN NoUser
    ELSE user

\* An Optional[str] field of a request: None, or a value
None == [present |-> FALSE, value |-> ""]
Some(v) == [present |-> TRUE, value |-> v]

\* DashboardRepository.update: the table afterwards
dashboard_update(tbl, dashboard) == tbl

\* UpdateDashboardUseCase.execute up to the validation of the screenshot:
\* the ValueError raised ("" for none), the entity read from the repository
\* with the fields of the request applied, and whether a screenshot came
UpdateDashboardUseCase_check(utbl, dtbl, dashboard_id, request, screenshot, current_user_id) ==
    LET current_user == get_by_id(utbl, current_user_id)
        dashboard == dashboard_get_by_id(dtbl, dashboard_id)
        upload == screenshot.size > 0 /\ Len(screenshot.filename) > 0
        entity == [dashboard EXCEPT
                     !.titulo = IF request.titulo.present
                                THEN request.titulo.value ELSE @,
                     !.categoria = IF request.categoria.present
                                   THEN request.categoria.value ELSE @]
    IN  IF current_user = NoUser
        THEN [error |-> "User not found", entity |-> NoDashboard, upload |-> FALSE]
        ELSE IF dashboard = NoDashboard
        THEN [error |-> "Dashboard not found", entity |-> NoDashboard, upload |-> FALSE]
        ELSE IF ~can_be_edited_by(dashboard, current_user.id, current_user.is_admin)
        THEN [error |-> "Insufficient permissions to edit dashboard",
              entity |-> NoDashboard, upload |-> FALSE]
        ELSE IF upload /\ ~validate_file(screenshot.filename, screenshot.size, ImageExtensions)
        THEN [error |-> "Invalid image file", entity |-> NoDashboard, upload |-> FALSE]
        ELSE [error |-> "", entity |-> entity, upload |-> upload]

\* UpdateDashboardUseCase.execute, "Delete old image": the stored files
\* afterwards
UpdateDashboardUseCase_delete_old(fs, entity) ==
    IF entity.url_imagen_preview # NoPath
    THEN delete_file(fs, entity.url_imagen_preview).files
    ELSE fs

\* UpdateDashboardUseCase.execute from "Save new file" on, the upload being
\* skipped when no screenshot came: the ValueError raised ("" for none), the
\* entity the response is built from, the dashboards table and the stored
\* files afterwards
UpdateDashboardUseCase_save(dtbl, fs, entity, upload, screenshot, sec) ==
    LET saved == save_file(fs, screenshot.size, screenshot.filename,
                           <<"i", "m", "a", "g", "e", "s">>, sec)
        final == IF upload THEN [entity EXCEPT !.url_imagen_preview = saved.path]
                 ELSE entity
    IN  IF upload /\ saved.error # ""
        THEN [error |-> saved.error, entity |-> NoDashboard, dashboards |-> dtbl,
              files |-> fs]
        ELSE [error |-> "", entity |-> final, dashboards |-> dashboard_update(dtbl, final),
              files |-> IF upload THEN saved.files ELSE fs]

\* The kind of failure a use case's ValueError stands for
ErrorKind(error) ==
    CASE error = "" -> "none"
      [] error \in {"User not found", "Dashboard not found"} -> "NotFound"
      [] error \in {"Only administrators can delete dashboards",
                    "Insufficient permissions to edit dashboard"} -> "Forbidden"
      [] error \in {"Username already exists", "Email already registered"} -> "Conflict"
      [] error \in {"Invalid username or password", "Account is deactivated",
                    "Invalid current password"} -> "InvalidCredentials"
      [] OTHER -> "InvalidInput"

-----------------------------------------------------------------------------
(* AuthMiddleware                                                          *)

\* The Authorization header of a request: absent, or a bearer token
NoCredentials == [present |-> FALSE, credentials |-> EmptyToken]
Bearer(token) == [present |-> TRUE, credentials |-> token]

\* verify_token with the token type never looked at
verify_token_AnyType(credentials, rv, sec) ==
    IF ~credentials.present
    THEN [status |-> 401, detail |-> "Authorization header required",
          user_info |-> NoUserInfo]
    ELSE LET user_info == get_user_from_token(credentials.credentials, rv, sec) IN
         IF user_info = NoUserInfo
         THEN [status |-> 401, detail |-> "Invalid authentication token",
               user_info |-> NoUserInfo]
         ELSE [status |-> 200, detail |-> "", user_info |-> user_info]

\* verify_token: the user-info record (status 200), or the HTTPException
verify_token(credentials, rv, sec) ==
    IF ~credentials.present
    THEN [status |-> 401, detail |-> "Authorization header required",
          user_info |-> NoUserInfo]
    ELSE LET user_info == get_user_from_token(credentials.credentials, rv, sec) IN
         IF user_info = NoUserInfo
         THEN [status |-> 401, detail |-> "Invalid authentication token",
               user_info |-> NoUserInfo]
         ELSE IF user_info.token_type # "access"
         THEN [status |-> 401, detail |-> "Invalid token type",
               user_info |-> NoUserInfo]
         ELSE [status |-> 200, detail |-> "", user_info |-> user_info]

\* get_current_user
get_current_user(credentials, rv, sec) == verify_token(credentials, rv, sec)

\* get_current_admin_user
get_current_admin_user(credentials, rv, sec) ==
    LET current_user == get_current_user(credentials, rv, sec) IN
    IF current_user.status # 200 THEN current_user
    ELSE IF ~current_user.user_info.is_admin
    THEN [status |-> 403, detail |-> "Administrator privileges required",
          user_info |-> NoUserInfo]
    ELSE current_user

-----------------------------------------------------------------------------
(* Requests the clients send                                               *)

TxtAdmin == <<"a", "d", "m", "i", "n">>
TxtAdminRaw == <<" ", "A", "d", "m", "i", "n", " ">>
TxtMario == <<"m", "a", "r", "i", "o", "_", "g", "o", "n", "z", "a", "l", "e", "z">>
TxtBob == <<"b", "o", "b">>
TxtBobRaw == <<"B", "O", "B", " ">>
TxtCarol == <<"c", "a", "r", "o", "l">>
TxtShort == <<"a", "b">>

Pw1 == <<"S", "e", "c", "r", "e", "t", "1", "p", "w">>
Pw2 == <<"P", "a", "s", "s", "w", "0", "r", "d", "X">>
PwWeak == <<"s", "e", "c", "r", "e", "t", "1">>

MailA == <<"a", "@", "x", ".", "i", "o">>
MailARaw == <<"A", "@", "x", ".", "i", "o">>
MailB == <<"b", "@", "x", ".", "i", "o">>
MailC == <<"c", "@", "x", ".", "i", "o">>

RegisterUsernames == {TxtAdmin, TxtAdminRaw, TxtMario, TxtBob, TxtBobRaw, TxtShort}
RegisterPasswords == {Pw1, PwWeak}
RegisterEmails == {MailA, MailARaw, MailB}
Salts == 1..MaxSalt

LoginUsernames == {TxtBobRaw, TxtCarol}
LoginPasswords == {Pw1, Pw2}

\* Tokens no call of the service produced: a JWT signed with another key
\* that claims to be the administrator, a JWT signed with the service's key
\* whose sub is the empty string, and a string that is no JWT
ForgedToken ==
    Jwt(<<"1">>, TxtAdmin, TRUE, "access", 0, Days(30), 0, Jti("access", 1, 0), FALSE)
NoSubToken ==
    Jwt(<<>>, <<>>, FALSE, "refresh", 0, Days(30), 0, <<"refresh", <<>>, 0>>, TRUE)
GarbageToken == Opaque("garbage")

CraftedTokens == {ForgedToken, NoSubToken, GarbageToken}

\* What a client can put into a request as a token
Presentable == issued \cup CraftedTokens

\* The users table after admin and bob registered, and after carol did too
TwoUsers ==
    LET t1 == RegisterUseCase_execute(<<>>, RegisterRequest(TxtAdmin, Pw1, MailA), 1).users
    IN  RegisterUseCase_execute(t1, RegisterRequest(TxtBobRaw, Pw2, MailB), 1).users

ThreeUsers ==
    RegisterUseCase_execute(TwoUsers, RegisterRequest(TxtCarol, Pw1, MailC), 1).users

\* What the dashboard forms are filled with: a title and a category, and no
\* screenshot, a PNG, or a shell script offered as one
DashboardRequests == {[titulo |-> "Sales", categoria |-> "Finance"]}
NoScreenshot == [size |-> 0, filename |-> <<>>]
PngA == [size |-> 5, filename |-> <<"a", ".", "p", "n", "g">>]
PngB == [size |-> 7, filename |-> <<"b", ".", "p", "n", "g">>]
ShellScript == [size |-> 5, filename |-> <<"a", ".", "s", "h">>]
Screenshots == {NoScreenshot, PngA, PngB, ShellScript}

\* What the update forms are filled with: a new title, or a new title and
\* category; and no screenshot, a new PNG, or a shell script
UpdateRequests ==
    {[titulo |-> Some("Costs"), categoria |-> None],
     [titulo |-> Some("Fleet"), categoria |-> Some("Operations")]}
UpdateScreenshots == {NoScreenshot, PngB, ShellScript}

\* The instants at which requests arrive, after the start: the last second
\* before and the second of the expiry of the tokens issued at the start
Instants ==
    {Minutes(access_token_expire_minutes) - 1, Minutes(access_token_expire_minutes),
     RefreshSeconds - 1, RefreshSeconds}

Resp(op, status, detail, arg, out) ==
    [op |-> op, status |-> status, detail |-> detail, arg |-> arg, out |-> out]

NoResp == Resp("none", 0, "", <<>>, <<>>)

\* No update_dashboard handler is suspended; a suspended one holds its
\* arguments, the entity it has changed in memory and that entity's old preview
NoUpdate ==
    [active |-> FALSE, arg |-> <<>>, entity |-> NoDashboard,
     screenshot |-> [size |-> 0, filename |-> <<>>], old |-> NoPath]

-----------------------------------------------------------------------------
(* Initial states                                                          *)

\* The DatabaseConfig object after a start with no DATABASE_TYPE set, SQLite
\* being set up without failure
DefaultDatabase ==
    setup_database(NewDatabase("sqlite"), [b \in Backends |-> "ok"])

\* What DATABASE_TYPE is set to, lower-cased: a backend, or something else
Selectors == Backends \cup {"oracle"}

\* The categories the stored dashboards are drawn with, and the tables of up
\* to MaxStored dashboards bob has created in them, with ids in the order of
\* creation
StoredCategories == {"Operations", "Finance", "finance", "Workshop", "Marketing"}
StoredTables ==
    UNION {{[k \in 1..n |-> [NoDashboard EXCEPT !.id = k, !.titulo = "Sales",
                                               !.categoria = c[k], !.created_by = 2]]
              : c \in [1..n -> StoredCategories]} : n \in 0..MaxStored}

\* What is uploaded to the storage: a.png, a name with a directory before it,
\* and the name ".."
UploadedFiles ==
    {PngA,
     [size |-> 5, filename |-> <<".", ".", "/", "a", ".", "p", "n", "g">>],
     [size |-> 3, filename |-> <<".", ".">>]}

\* The files beside the base directory: one in static2, one in the working
\* directory
OutsideFiles ==
    {<<"/", "a", "p", "p", "/", "s", "t", "a", "t", "i", "c", "2", "/", "x", ".", "p", "n", "g">>,
     <<"/", "a", "p", "p", "/", "k", "e", "y", ".", "p", "e", "m">>}

\* Paths delete_file is called with besides the ones save_file has returned:
\* paths with ".." that lead into static2, into the working directory, back
\* into images, through a directory that is not there, and a plain path
CraftedPaths ==
    {<<".", ".", "/", "s", "t", "a", "t", "i", "c", "2", "/", "x", ".", "p", "n", "g">>,
     <<"/", ".", ".", "/", "k", "e", "y", ".", "p", "e", "m">>,
     <<"i", "m", "a", "g", "e", "s", "/", ".", ".", "/", "i", "m", "a", "g", "e", "s", "/",
       "0", "_", "a", ".", "p", "n", "g">>,
     <<"t", "m", "p", "/", ".", ".", "/", "i", "m", "a", "g", "e", "s", "/",
       "0", "_", "a", ".", "p", "n", "g">>,
     <<"/", "i", "m", "a", "g", "e", "s", "/", "1", "_", "a", ".", "p", "n", "g">>}

\* The second after the start
LaterInstants == {1}

\* The documents that are migrated: their users and tableros, with names that
\* come twice and names that differ in case only
SourceUsers ==
    {<<>>,
     <<[username |-> <<"b", "o", "b">>, is_admin |-> FALSE]>>,
     <<[username |-> <<"b", "o", "b">>, is_admin |-> FALSE],
       [username |-> <<"B", "o", "b">>, is_admin |-> TRUE],
       [username |-> <<"b", "o", "b">>, is_admin |-> FALSE]>>,
     <<[username |-> <<"a", "d", "m", "i", "n">>, is_admin |-> TRUE],
       [username |-> <<"b", "o", "b">>, is_admin |-> FALSE]>>}
SourceTableros ==
    {<<>>,
     <<[titulo |-> <<"S", "a", "l", "e", "s">>], [titulo |-> <<"S", "a", "l", "e", "s">>]>>,
     <<[titulo |-> <<"s", "a", "l", "e", "s">>], [titulo |-> <<"K", "P", "I">>]>>}
SourceDocuments == [users : SourceUsers, tableros : SourceTableros]

InitWith(tbl) ==
    /\ users = tbl
    /\ now = 0
    /\ us = 0
    /\ revoked = {}
    /\ issued = {}
    /\ revokeCalled = {}
    /\ dashboards = <<>>
    /\ nextDashId = 1
    /\ files = {}
    /\ resp = NoResp
    /\ pydantic \in PydanticVersions
    /\ updating = NoUpdate
    /\ dbcfg = DefaultDatabase
    /\ sessions = <<>>

\* a database in which admin, bob and carol have registered and bob has
\* created some dashboards
InitStored ==
    /\ users = ThreeUsers
    /\ now = 0
    /\ us = 0
    /\ revoked = {}
    /\ issued = {}
    /\ revokeCalled = {}
    /\ dashboards \in StoredTables
    /\ nextDashId = Len(dashboards) + 1
    /\ files = {}
    /\ resp = NoResp
    /\ pydantic \in PydanticVersions
    /\ updating = NoUpdate
    /\ dbcfg = DefaultDatabase
    /\ sessions = <<>>

\* a server whose storage is empty, with files beside the base directory
InitFile ==
    /\ users = ThreeUsers
    /\ now = 0
    /\ us = 0
    /\ revoked = {}
    /\ issued = {}
    /\ revokeCalled = {}
    /\ dashboards = <<>>
    /\ nextDashId = 1
    /\ files = OutsideFiles
    /\ resp = NoResp
    /\ pydantic \in PydanticVersions
    /\ updating = NoUpdate
    /\ dbcfg = DefaultDatabase
    /\ sessions = <<>>

\* a server that is being started, with DATABASE_TYPE set to any selector
InitDb ==
    /\ users = ThreeUsers
    /\ now = 0
    /\ us = 0
    /\ revoked = {}
    /\ issued = {}
    /\ revokeCalled = {}
    /\ dashboards = <<>>
    /\ nextDashId = 1
    /\ files = {}
    /\ resp = NoResp
    /\ pydantic \in PydanticVersions
    /\ updating = NoUpdate
    /\ dbcfg \in {NewDatabase(s) : s \in Selectors}
    /\ sessions = <<>>

\* an enterprise database with no users and no dashboards, of either collation
InitMig ==
    /\ users = <<>>
    /\ now = 0
    /\ us = 0
    /\ revoked = {}
    /\ issued = {}
    /\ revokeCalled = {}
    /\ dashboards = <<>>
    /\ nextDashId = 1
    /\ files = {}
    /\ resp = NoResp
    /\ pydantic \in PydanticVersions
    /\ updating = NoUpdate
    /\ dbcfg \in {[selector |-> "mssql", database_type |-> "mssql", SessionLocal |-> "mssql",
                   state |-> "configured", collation |-> c] : c \in {"CS", "CI"}}
    /\ sessions = <<>>

\* an empty database
InitReg == InitWith(<<>>)

\* a database in which admin and bob have registered
InitAuth == InitWith(TwoUsers)

\* a database in which admin, bob and carol have registered
InitDash == InitWith(ThreeUsers)

-----------------------------------------------------------------------------
(* Operations on users and tokens                                          *)

\* POST /api/auth/register
Register(username, password, email, salt) ==
    LET request == RegisterRequest(username, password, email)
        r == RegisterUseCase_execute(users, request, salt)
    IN  /\ IF ~request.ok
           THEN /\ users' = users
                /\ resp' = Resp("register", 422, "InvalidInput",
                                [username |-> username, email |-> email], NoUser)
           ELSE IF r.error # ""
           THEN /\ users' = users
                /\ resp' = Resp("register", 400, r.error,
                                [username |-> username, email |-> email], NoUser)
           ELSE /\ Len(users) < MaxUsers
                /\ users' = r.users
                /\ resp' = Resp("register", 200, "",
                                [username |-> username, email |-> email],
                                r.users[Len(r.users)])
        /\ UNCHANGED <<updating, dbVars, pydantic, now, us, revoked, issued, revokeCalled, dashboards,
                       nextDashId, files>>

\* AuthenticationService.deactivate_user
DeactivateUser(user_id) ==
    /\ users' = set_active(users, user_id, FALSE)
    /\ resp' = Resp("deactivate", 0, "", user_id, get_by_id(users, user_id) # NoUser)
    /\ UNCHANGED <<updating, dbVars, pydantic, now, us, revoked, issued, revokeCalled, dashboards,
                   nextDashId, files>>

\* AuthenticationService.activate_user
ActivateUser(user_id) ==
    /\ users' = set_active(users, user_id, TRUE)
    /\ resp' = Resp("activate", 0, "", user_id, get_by_id(users, user_id) # NoUser)
    /\ UNCHANGED <<updating, dbVars, pydantic, now, us, revoked, issued, revokeCalled, dashboards,
                   nextDashId, files>>

\* POST /api/auth/login
Login(username, password) ==
    LET request == LoginRequest(username, password)
        r == LoginUseCase_execute(users, request, now, us)
        arg == [username |-> username, password |-> password]
    IN  /\ IF ~request.ok
           THEN /\ resp' = Resp("login", 422, "InvalidInput", arg, NoTokens)
                /\ UNCHANGED <<users, us, issued>>
           ELSE IF r.error # ""
           THEN /\ resp' = Resp("login", 401, r.error, arg, NoTokens)
                /\ UNCHANGED <<users, us, issued>>
           ELSE /\ Cardinality(issued) + 2 <= MaxIssued
                /\ users' = r.users
                /\ us' = us + 2
                /\ issued' = issued \cup {r.tokens.access_token, r.tokens.refresh_token}
                /\ resp' = Resp("login", 200, "", arg, r.tokens)
        /\ UNCHANGED <<updating, dbVars, pydantic, now, revoked, revokeCalled, dashboards, nextDashId, files>>

\* POST /api/auth/refresh
Refresh(token) ==
    LET r == RefreshTokenUseCase_execute(users, token, revoked, now, us, pydantic) IN
    /\ IF r.error # ""
       THEN /\ resp' = Resp("refresh", 401, r.error, token, NoTokens)
            /\ UNCHANGED <<us, issued>>
       ELSE /\ Cardinality(issued) + 1 <= MaxIssued
            /\ us' = us + 1
            /\ issued' = issued \cup {r.tokens.access_token}
            /\ resp' = Resp("refresh", 200, "", token, r.tokens)
    /\ UNCHANGED <<updating, dbVars, pydantic, users, now, revoked, revokeCalled, dashboards, nextDashId, files>>

\* POST /api/auth/logout: the bearer dependency, then the use case, which
\* the handler calls with the literal "current_token" as the access token
\* the logout handler with a failed revocation of the access token answered
\* as an error
logout_Strict(refresh_token, rv, sec) ==
    IF ~revoke_token(Opaque("current_token"), rv, sec).ok
    THEN [status |-> 500, message |-> "Internal Server Error", revoked |-> rv]
    ELSE [status |-> 200, message |-> "Logged out successfully",
          revoked |-> LogoutUseCase_execute(Opaque("current_token"), refresh_token, rv, sec)]

\* the body of the logout handler, the dependencies resolved: the use case
\* returns True whatever revoke_token returned
logout(refresh_token, rv, sec) ==
    [status |-> 200, message |-> "Logged out successfully",
     revoked |-> LogoutUseCase_execute(Opaque("current_token"), refresh_token, rv, sec)]

\* POST /api/auth/logout; body_valid is FALSE for a body that is not a
\* RefreshTokenRequest, refused once the bearer dependency has been resolved
Logout(credentials, refresh_token, body_valid) ==
    LET current_user == get_current_user(credentials, revoked, now)
        answer == logout(refresh_token, revoked, now)
        arg == [credentials |-> credentials, refresh_token |-> refresh_token,
                body_valid |-> body_valid]
    IN  /\ IF current_user.status # 200
           THEN /\ resp' = Resp("logout", current_user.status, current_user.detail, arg, FALSE)
                /\ UNCHANGED <<revoked, revokeCalled>>
           ELSE IF ~body_valid
           THEN /\ resp' = Resp("logout", 422, "InvalidInput", arg, FALSE)
                /\ UNCHANGED <<revoked, revokeCalled>>
           ELSE /\ revoked' = answer.revoked
                /\ revokeCalled' = revokeCalled \cup {Opaque("current_token")} \cup
                                   (IF refresh_token # EmptyToken THEN {refresh_token} ELSE {})
                /\ resp' = Resp("logout", answer.status, answer.message, arg,
                                answer.status = 200)
        /\ UNCHANGED <<updating, dbVars, pydantic, users, now, us, issued, dashboards, nextDashId, files>>

\* GET /api/auth/me: a bearer-protected route
GetMe(credentials) ==
    LET current_user == get_current_user(credentials, revoked, now)
        user == get_by_id(users, current_user.user_info.user_id)
    IN  /\ resp' = IF current_user.status # 200
                   THEN Resp("me", current_user.status, current_user.detail,
                             credentials, NoUserInfo)
                   ELSE IF user = NoUser
                   THEN Resp("me", 404, "User not found", credentials, current_user.user_info)
                   ELSE Resp("me", 200, "", credentials, current_user.user_info)
        /\ UNCHANGED <<updating, dbVars, pydantic, users, now, us, revoked, issued, revokeCalled, dashboards,
                       nextDashId, files>>

\* DELETE /api/dashboards/{dashboard_id}: the admin dependency, then the use case
DeleteDashboardRoute(credentials, dashboard_id) ==
    LET current_admin == get_current_admin_user(credentials, revoked, now)
        r == DeleteDashboardUseCase_execute(users, dashboards, files, dashboard_id,
                                            current_admin.user_info.user_id)
    IN  /\ IF current_admin.status # 200
           THEN /\ resp' = Resp("delete_route", current_admin.status, current_admin.detail,
                                credentials, NoUserInfo)
                /\ UNCHANGED <<dashboards, files>>
           ELSE IF r.error # ""
           THEN /\ resp' = Resp("delete_route", 400, r.error, credentials,
                                current_admin.user_info)
                /\ UNCHANGED <<dashboards, files>>
           ELSE /\ resp' = Resp("delete_route", 200, "Dashboard deleted successfully",
                                credentials, current_admin.user_info)
                /\ dashboards' = r.dashboards
                /\ files' = r.files
        /\ UNCHANGED <<updating, dbVars, pydantic, users, now, us, revoked, issued, revokeCalled, nextDashId>>

\* CreateDashboardUseCase.execute
CreateDashboard(request, screenshot, current_user_id) ==
    LET r == CreateDashboardUseCase_execute(dashboards, files, nextDashId, request,
                                            screenshot, current_user_id, now)
    IN  /\ IF r.error # ""
           THEN /\ resp' = Resp("create", 400, r.error, current_user_id, NoDashboard)
                /\ UNCHANGED <<dashboards, nextDashId, files>>
           ELSE /\ nextDashId <= MaxDashboards
                /\ resp' = Resp("create", 200, "", current_user_id,
                                r.dashboards[Len(r.dashboards)])
                /\ dashboards' = r.dashboards
                /\ nextDashId' = nextDashId + 1
                /\ files' = r.files
        /\ UNCHANGED <<updating, dbVars, pydantic, users, now, us, revoked, issued, revokeCalled>>

\* GetAllDashboardsUseCase.execute
GetAllDashboards(current_user_id) ==
    LET r == GetAllDashboardsUseCase_execute(users, dashboards, current_user_id) IN
    /\ resp' = Resp("get_all", IF r.error = "" THEN 200 ELSE 400, r.error,
                    current_user_id, r.dashboards)
    /\ UNCHANGED <<updating, dbVars, pydantic, users, now, us, revoked, issued, revokeCalled, dashboards,
                   nextDashId, files>>

\* DeleteDashboardUseCase.execute
DeleteDashboard(dashboard_id, current_user_id) ==
    LET r == DeleteDashboardUseCase_execute(users, dashboards, files, dashboard_id,
                                            current_user_id)
    IN  /\ resp' = Resp("delete", IF r.error = "" THEN 200 ELSE 400, r.error,
                        [dashboard_id |-> dashboard_id, user_id |-> current_user_id,
                         dashboard |-> dashboard_get_by_id(dashboards, dashboard_id),
                         files |-> files],
                        [deleted |-> r.error = "", after_image |-> r.after_image])
        /\ dashboards' = r.dashboards
        /\ files' = r.files
        /\ UNCHANGED <<updating, dbVars, pydantic, users, now, us, revoked, issued, revokeCalled, nextDashId>>

\* PUT /api/dashboards/{dashboard_id}, for the user the bearer token names,
\* up to the await in save_file: a ValueError is answered with 400; with no
\* screenshot the handler runs to its end; with one, the old preview is
\* deleted and the handler is suspended while the new file is written
UpdateDashboard(dashboard_id, request, screenshot, current_user_id) ==
    LET c == UpdateDashboardUseCase_check(users, dashboards, dashboard_id, request,
                                          screenshot, current_user_id)
        r == UpdateDashboardUseCase_save(dashboards, files, c.entity, FALSE, screenshot, now)
        arg == [dashboard_id |-> dashboard_id, user_id |-> current_user_id,
                request |-> request, screenshot |-> screenshot,
                dashboard |-> dashboard_get_by_id(dashboards, dashboard_id)]
    IN  /\ ~updating.active
        /\ IF c.error # ""
           THEN /\ resp' = Resp("update", 400, c.error, arg, NoDashboard)
                /\ UNCHANGED <<dashboards, files, updating>>
           ELSE IF ~c.upload
           THEN /\ resp' = Resp("update", 200, "", arg, r.entity)
                /\ dashboards' = r.dashboards
                /\ UNCHANGED <<files, updating>>
           ELSE /\ files' = UpdateDashboardUseCase_delete_old(files, c.entity)
                /\ updating' = [active |-> TRUE, arg |-> arg, entity |-> c.entity,
                                screenshot |-> screenshot,
                                old |-> c.entity.url_imagen_preview]
                /\ resp' = Resp("update_suspended", 0, "", arg, NoDashboard)
                /\ UNCHANGED dashboards
        /\ UNCHANGED <<dbVars, pydantic, users, now, us, revoked, issued, revokeCalled,
                       nextDashId>>

\* The suspended update_dashboard handler runs on to its end
UpdateDashboardResume ==
    LET r == UpdateDashboardUseCase_save(dashboards, files, updating.entity, TRUE,
                                         updating.screenshot, now)
    IN  /\ updating.active
        /\ updating' = NoUpdate
        /\ IF r.error # ""
           THEN /\ resp' = Resp("update", 400, r.error, updating.arg, NoDashboard)
                /\ UNCHANGED <<dashboards, files>>
           ELSE /\ resp' = Resp("update", 200, "", updating.arg, r.entity)
                /\ dashboards' = r.dashboards
                /\ files' = r.files
        /\ UNCHANGED <<dbVars, pydantic, users, now, us, revoked, issued, revokeCalled,
                       nextDashId>>

\* GET /api/dashboards/featured?limit=...
GetFeaturedDashboards(limit) ==
    /\ resp' = Resp("featured", 200, "", [limit |-> limit],
                    GetFeaturedDashboardsUseCase_execute(dashboards, limit))
    /\ UNCHANGED <<updating, dbVars, pydantic, users, now, us, revoked, issued, revokeCalled,
                   dashboards, nextDashId, files>>

\* LocalFileStorageService.save_file into the directory images
SaveFile(file) ==
    LET r == save_file(files, file.size, file.filename, <<"i", "m", "a", "g", "e", "s">>, now)
    IN  /\ resp' = Resp("save_file", 0, r.error, [file |-> file, files |-> files], r.path)
        /\ files' = r.files
        /\ UNCHANGED <<updating, dbVars, pydantic, users, now, us, revoked, issued,
                       revokeCalled, dashboards, nextDashId>>

\* LocalFileStorageService.delete_file
DeleteFile(file_path) ==
    LET r == delete_file(files, file_path)
    IN  /\ resp' = Resp("delete_file", 0, "", [file_path |-> file_path, files |-> files], r.ok)
        /\ files' = r.files
        /\ UNCHANGED <<updating, dbVars, pydantic, users, now, us, revoked, issued,
                       revokeCalled, dashboards, nextDashId>>

\* save_file into the directory images, then at once delete_file of the path
\* it has returned
SaveThenDeleteFile(file) ==
    LET s == save_file(files, file.size, file.filename, <<"i", "m", "a", "g", "e", "s">>, now)
        d == delete_file(s.files, s.path)
    IN  /\ s.error = ""
        /\ resp' = Resp("save_delete", 0, "", [file |-> file, files |-> files],
                        [path |-> s.path, ok |-> d.ok])
        /\ files' = d.files
        /\ UNCHANGED <<updating, dbVars, pydantic, users, now, us, revoked, issued,
                       revokeCalled, dashboards, nextDashId>>

\* db_config = DatabaseConfig(), every backend's setup going as outcome says
SetupDatabase(outcome) ==
    /\ dbcfg.state = "new"
    /\ dbcfg' = setup_database(dbcfg, outcome)
    /\ resp' = Resp("setup", 0, "", [selector |-> dbcfg.selector, outcome |-> outcome], <<>>)
    /\ UNCHANGED <<updating, sessions, pydantic, users, now, us, revoked, issued,
                   revokeCalled, dashboards, nextDashId, files>>

\* get_db up to its yield, for a request to a route that depends on it: with
\* no session factory it raises, otherwise the request has a session
GetDb ==
    /\ dbcfg.state \in {"configured", "failed"}
    /\ Len(sessions) < MaxRequests
    /\ IF dbcfg.SessionLocal = ""
       THEN /\ resp' = Resp("get_db", 500, "Database not properly configured", <<>>, <<>>)
            /\ UNCHANGED sessions
       ELSE /\ resp' = Resp("get_db", 0, "", <<>>, Len(sessions) + 1)
            /\ sessions' = Append(sessions, Session(dbcfg.SessionLocal))
    /\ UNCHANGED <<updating, dbcfg, pydantic, users, now, us, revoked, issued,
                   revokeCalled, dashboards, nextDashId, files>>

\* The handler of the k-th request writes a row through a repository
RepositoryWrite(k, commit_ok) ==
    /\ sessions[k].request = "running"
    /\ sessions[k].committed + sessions[k].pending < MaxWrites
    /\ sessions' = [sessions EXCEPT ![k] = repository_create(@, commit_ok)]
    /\ resp' = Resp("write", 0, "", k, commit_ok)
    /\ UNCHANGED <<updating, dbcfg, pydantic, users, now, us, revoked, issued,
                   revokeCalled, dashboards, nextDashId, files>>

\* The handler of the k-th request returns, or raises
HandlerEnds(k, how) ==
    /\ sessions[k].request = "running"
    /\ sessions' = [sessions EXCEPT ![k] = [@ EXCEPT !.request = "done", !.handler = how]]
    /\ resp' = Resp("handler", 0, "", k, how)
    /\ UNCHANGED <<updating, dbcfg, pydantic, users, now, us, revoked, issued,
                   revokeCalled, dashboards, nextDashId, files>>

\* The k-th request ends: get_db is run on from its yield
EndRequest(k) ==
    /\ sessions[k].request = "done"
    /\ sessions' = [sessions EXCEPT ![k] = [get_db_finally(@) EXCEPT !.request = "ended"]]
    /\ resp' = Resp("end_request", 0, "", k, <<>>)
    /\ UNCHANGED <<updating, dbcfg, pydantic, users, now, us, revoked, issued,
                   revokeCalled, dashboards, nextDashId, files>>

\* python migration_script.py for a document; users and dashboards hold the
\* rows of [Security].[Users] and [Dashboard].[Dashboards]
RunMigration(document) ==
    LET r == run_migration(users, dashboards, document, dbcfg.collation)
    IN  /\ users' = r.users
        /\ dashboards' = r.dashboards
        /\ resp' = Resp("migrate", 0, r.error, [document |-> document],
                        (Len(r.users) - Len(users)) + (Len(r.dashboards) - Len(dashboards)))
        /\ UNCHANGED <<updating, dbVars, pydantic, now, us, revoked, issued, revokeCalled,
                       nextDashId, files>>

\* POST /api/auth/change-password, for the user the bearer token names
ChangePassword(user_id, old_password, new_password, salt) ==
    LET request == ChangePasswordRequest(old_password, new_password)
        r == ChangePasswordUseCase_execute(users, user_id, request, salt)
        arg == [user_id |-> user_id, old_password |-> old_password,
                new_password |-> new_password]
    IN  /\ IF ~request.ok
           THEN /\ resp' = Resp("change_password", 422, "InvalidInput", arg, FALSE)
                /\ UNCHANGED users
           ELSE IF r.error # ""
           THEN /\ resp' = Resp("change_password", 400, r.error, arg, FALSE)
                /\ UNCHANGED users
           ELSE /\ resp' = Resp("change_password", 200, "", arg, TRUE)
                /\ users' = r.users
        /\ UNCHANGED <<updating, dbVars, pydantic, now, us, revoked, issued, revokeCalled,
                       dashboards, nextDashId, files>>

\* POST /api/login of main.py
MainLogin(username, password) ==
    LET user == main_authenticate_user(users, username, password)
        arg == [username |-> username, password |-> password]
    IN  /\ resp' = IF user = NoUser
                   THEN Resp("main_login", 401, "Incorrect username or password", arg,
                             NoLegacyToken)
                   ELSE Resp("main_login", 200, "", arg,
                             legacy_create_access_token(user.username,
                                 Minutes(ACCESS_TOKEN_EXPIRE_MINUTES), now))
        /\ UNCHANGED <<updating, dbVars, pydantic, users, now, us, revoked, issued,
                       revokeCalled, dashboards, nextDashId, files>>

\* POST /api/login of main_postgres.py
MainPostgresLogin(username, password) ==
    LET user == main_postgres_authenticate_user(users, username, password)
        arg == [username |-> username, password |-> password]
    IN  /\ resp' = IF user = NoUser
                   THEN Resp("main_postgres_login", 401, "Incorrect username or password",
                             arg, NoLegacyToken)
                   ELSE Resp("main_postgres_login", 200, "", arg,
                             legacy_create_access_token(user.username,
                                 Minutes(ACCESS_TOKEN_EXPIRE_MINUTES), now))
        /\ UNCHANGED <<updating, dbVars, pydantic, users, now, us, revoked, issued,
                       revokeCalled, dashboards, nextDashId, files>>

\* JwtTokenService.cleanup_expired_tokens
CleanupExpiredTokens ==
    LET r == cleanup_expired_tokens(revoked) IN
    /\ revoked' = r.revoked
    /\ resp' = Resp("cleanup", 0, "", <<>>, r.removed)
    /\ UNCHANGED <<updating, dbVars, pydantic, users, now, us, issued, revokeCalled,
                   dashboards, nextDashId, files>>

\* JwtTokenService.revoke_token
RevokeToken(token) ==
    LET r == revoke_token(token, revoked, now) IN
    /\ revoked' = r.revoked
    /\ revokeCalled' = revokeCalled \cup {token}
    /\ resp' = Resp("revoke", 0, "", token, r.ok)
    /\ UNCHANGED <<updating, dbVars, pydantic, users, now, us, issued, dashboards, nextDashId, files>>

\* JwtTokenService.decode_token
DecodeToken(token) ==
    LET d == decode_token(token, revoked, now) IN
    /\ resp' = Resp("decode", 0, d.error, token, d.ok)
    /\ UNCHANGED <<updating, dbVars, pydantic, users, now, us, revoked, issued, revokeCalled, dashboards,
                   nextDashId, files>>

\* Time passes until the instant t
Advance(t) ==
    /\ now < t
    /\ now' = t
    /\ us' = 0
    /\ resp' = NoResp
    /\ UNCHANGED <<updating, dbVars, pydantic, users, revoked, issued, revokeCalled, dashboards, nextDashId, files>>

-----------------------------------------------------------------------------
(* Specifications                                                          *)

\* registration, from an empty database
NextReg ==
    \/ \E u \in RegisterUsernames, p \in RegisterPasswords, e \in RegisterEmails,
          s \in Salts : Register(u, p, e, s)
    \/ \E i \in 1..MaxUsers : DeactivateUser(i)
    \/ \E i \in 1..MaxUsers : ActivateUser(i)

SpecReg == InitReg /\ [][NextReg]_vars

\* login and refresh against users that come and go
NextAuth ==
    \/ \E u \in LoginUsernames, p \in LoginPasswords : Login(u, p)
    \/ \E t \in Presentable : Refresh(t)
    \/ \E t \in issued : RevokeToken(t)
    \/ \E i \in 2..Len(users) : DeactivateUser(i)
    \/ \E i \in 2..Len(users) : ActivateUser(i)
    \/ \E t \in Instants : Advance(t)

SpecAuth == InitAuth /\ [][NextAuth]_vars

\* the token service
NextTok ==
    \/ \E u \in {TxtAdminRaw, TxtBobRaw} : Login(u, IF u = TxtAdminRaw THEN Pw1 ELSE Pw2)
    \/ \E t \in issued : Refresh(t)
    \/ \E t \in issued : RevokeToken(t)
    \/ \E t \in Presentable : DecodeToken(t)
    \/ CleanupExpiredTokens
    \/ \E t \in Instants : Advance(t)

SpecTok == InitAuth /\ [][NextTok]_vars

\* the bearer-protected routes
NextRoute ==
    \/ \E u \in {TxtAdminRaw, TxtBobRaw} : Login(u, IF u = TxtAdminRaw THEN Pw1 ELSE Pw2)
    \/ \E t \in Presentable, r \in {x \in issued : x.type = "refresh"} \cup {EmptyToken} :
            Logout(Bearer(t), r, TRUE)
    \/ \E t \in Presentable : Logout(Bearer(t), EmptyToken, FALSE)
    \/ Logout(NoCredentials, EmptyToken, TRUE)
    \/ \E t \in Presentable : GetMe(Bearer(t))
    \/ GetMe(NoCredentials)
    \/ \E t \in Presentable : DeleteDashboardRoute(Bearer(t), 1)
    \/ DeleteDashboardRoute(NoCredentials, 1)
    \/ \E t \in Instants : Advance(t)

SpecRoute == InitAuth /\ [][NextRoute]_vars


\* the dashboard use cases, for admin, bob, carol and an id nobody has, the
\* dashboards being created by bob and carol
NextDash ==
    \/ \E q \in DashboardRequests, f \in Screenshots, i \in 2..Len(users) :
          CreateDashboard(q, f, i)
    \/ \E i \in 1..(Len(users) + 1) : GetAllDashboards(i)
    \/ \E d \in 1..(MaxDashboards + 1), i \in 1..(Len(users) + 1) : DeleteDashboard(d, i)

SpecDash == InitDash /\ [][NextDash]_vars


\* updates of dashboards bob has created, by admin, bob, carol and an id
\* nobody has, with the titles, categories and screenshots a form may carry
NextUpd ==
    \/ \E q \in DashboardRequests, f \in {NoScreenshot, PngA} : CreateDashboard(q, f, 2)
    \/ \E d \in 1..(MaxDashboards + 1), q \in UpdateRequests, f \in UpdateScreenshots,
          i \in 1..(Len(users) + 1) : UpdateDashboard(d, q, f, i)
    \/ UpdateDashboardResume

SpecUpd == InitDash /\ [][NextUpd]_vars


\* requests for the featured dashboards of a database
NextFeat == \E limit \in 0..MaxLimit : GetFeaturedDashboards(limit)

SpecFeat == InitStored /\ [][NextFeat]_vars


\* the file storage on its own: uploads in two seconds, and deletions of the
\* paths the uploads have returned and of crafted ones
NextFile ==
    \/ \E f \in UploadedFiles : SaveFile(f)
    \/ \E p \in CraftedPaths \cup {<<"/">> \o f : f \in files \ OutsideFiles} : DeleteFile(p)
    \/ \E f \in UploadedFiles : SaveThenDeleteFile(f)
    \/ \E t \in LaterInstants : Advance(t)

SpecFile == InitFile /\ [][NextFile]_vars


\* the start of the server and the database sessions of its requests
NextDb ==
    \/ \E outcome \in [Backends -> SetupOutcomes] : SetupDatabase(outcome)
    \/ GetDb
    \/ \E k \in 1..Len(sessions), commit_ok \in BOOLEAN : RepositoryWrite(k, commit_ok)
    \/ \E k \in 1..Len(sessions), how \in {"returned", "raised"} : HandlerEnds(k, how)
    \/ \E k \in 1..Len(sessions) : EndRequest(k)

SpecDb == InitDb /\ [][NextDb]_vars


\* runs of the migration script, one after the other
NextMig == \E document \in SourceDocuments : RunMigration(document)

SpecMig == InitMig /\ [][NextMig]_vars


\* changes of the password by admin, bob and an id nobody has, with the right
\* old password, a wrong one and none, and a new password that may be the
\* old one or too weak
NextPw ==
    \E i \in 1..(Len(users) + 1), old \in {Pw1, Pw2, <<>>}, new \in {Pw1, Pw2, PwWeak},
       salt \in Salts : ChangePassword(i, old, new, salt)

SpecPw == InitAuth /\ [][NextPw]_vars


\* logins through the two legacy entry points while accounts are deactivated
\* and activated again
NextLegacy ==
    \/ \E u \in {TxtAdmin, TxtBob, TxtCarol}, p \in {Pw1, Pw2} : MainLogin(u, p)
    \/ \E u \in {TxtAdmin, TxtBob, TxtCarol}, p \in {Pw1, Pw2} : MainPostgresLogin(u, p)
    \/ \E i \in 1..Len(users) : DeactivateUser(i)
    \/ \E i \in 1..Len(users) : ActivateUser(i)
    \/ \E t \in Instants : Advance(t)

SpecLegacy == InitAuth /\ [][NextLegacy]_vars

-----------------------------------------------------------------------------
(* Registration: properties of SpecReg                                     *)

\* the answer in resp is that of a Register that created an account
Registered == resp.op = "register" /\ resp.status = 200

\* C7 as stated: a successful Register creates an administrator account if
\* and only if the username, as it was requested, is exactly admin or
\* mario_gonzalez
C7_AdminIffExactName ==
    Registered => (resp.out.is_admin <=> resp.arg.username \in AdminUsernames)

\* C7: a successful Register creates an administrator account if and only if
\* the requested username, once surrounding blanks are cut off and capitals
\* are lowered, is admin or mario_gonzalez; every other username yields a
\* non-admin account, and the account is stored as the answer shows it
C7_AdminIffNormalizedName ==
    Registered =>
        /\ resp.out.is_admin <=> Lower(Strip(resp.arg.username)) \in AdminUsernames
        /\ get_by_id(users, resp.out.id) = resp.out
        /\ resp.out.username = Lower(Strip(resp.arg.username))

\* " Admin " was requested and an administrator account was created
C7_RawAdminRegistered ==
    /\ Registered
    /\ resp.arg.username = TxtAdminRaw
    /\ resp.out.is_admin
    /\ \E i \in 1..Len(users) : users[i].username = TxtAdmin /\ users[i].is_admin

\* no two stored users share a username, and no two an e-mail address
UniqueUsers ==
    \A i, j \in 1..Len(users) :
        i # j => /\ users[i].username # users[j].username
                 /\ users[i].email # users[j].email

\* the normalized username or e-mail address of the request belongs to a
\* user stored in tbl
Taken(tbl, arg) ==
    \E i \in 1..Len(tbl) :
        \/ tbl[i].username = Lower(Strip(arg.username))
        \/ tbl[i].email = Strip(Lower(arg.email))

\* C8: after any sequence of Register operations no two stored users share a
\* username and no two share an e-mail address; a Register with a valid
\* request whose normalized username or e-mail address already belongs to a
\* stored user fails with Conflict and leaves the users unchanged
C8_UniqueAndConflict ==
    /\ []UniqueUsers
    /\ [][(resp'.op = "register" /\ resp'.status # 422 /\ Taken(users, resp'.arg))
            => (/\ resp'.status = 400
                /\ ErrorKind(resp'.detail) = "Conflict"
                /\ users' = users)]_vars

\* a@x.io is registered, and a Register with A@x.io, under a username that
\* is free, was refused as a Conflict
C8_DuplicateEmailRefused ==
    /\ resp.op = "register"
    /\ resp.status = 400
    /\ resp.detail = "Email already registered"
    /\ resp.arg.email = MailARaw
    /\ get_by_username(users, Lower(Strip(resp.arg.username))) = NoUser
    /\ get_by_email(users, MailA) # NoUser

-----------------------------------------------------------------------------
(* Login and refresh: properties of SpecAuth                               *)

\* the stored user a login request names
Named(tbl, username) == get_by_username(tbl, Lower(Strip(username)))

\* C3: Login with the correct username and password of an active user
\* returns an access token whose sub claim equals that user's id and whose
\* exp is 1800 seconds after iat (expires_in = 1800); Login for a user whose
\* active flag is false fails and issues no token, even with the correct
\* password
C3_LoginIssuesTokenForActiveUserOnly ==
    [][resp'.op = "login" =>
        LET u == Named(users, resp'.arg.username)
            correct == u # NoUser /\ u.hashed_password.digest = resp'.arg.password
            access == resp'.out.access_token
        IN  /\ (correct /\ u.is_active) =>
                  /\ resp'.status = 200
                  /\ access.type = "access" /\ access.sig
                  /\ IntOfStr(access.sub) = u.id
                  /\ access.exp = access.iat + 1800
                  /\ access.iat = now
                  /\ resp'.out.expires_in = 1800
                  /\ access \in issued'
            /\ (u # NoUser /\ ~u.is_active) =>
                  /\ resp'.status = 401
                  /\ resp'.out = NoTokens
                  /\ issued' = issued
            /\ ~correct => (resp'.status # 200 /\ issued' = issued)
    ]_vars

\* bob, who logged in before and was deactivated since, sent his correct
\* password and was refused
C3_InactiveLoginRefused ==
    LET u == Named(users, resp.arg.username) IN
    /\ resp.op = "login"
    /\ resp.status = 401
    /\ u # NoUser
    /\ ~u.is_active
    /\ u.hashed_password.digest = resp.arg.password
    /\ \E t \in issued :
          /\ t.type = "access"
          /\ IntOfStr(t.sub) = u.id
          /\ t.exp = t.iat + 1800

\* C4 as stated: RefreshToken fails with InvalidToken, issuing nothing,
\* whenever the presented token has no subject, has been revoked, or names a
\* user that does not exist or is inactive; otherwise, for a token that
\* decodes, it returns a new 30-minute access token for that user and no
\* new refresh token
C4_RefreshFailsOrIssuesAccessToken ==
    resp.op = "refresh" =>
        LET t == resp.arg
            u == get_by_id(users, IntOfStr(t.sub))
            access == resp.out.access_token
        IN  /\ (\/ t.sub = <<>>
                \/ is_token_revoked(t, revoked, now)
                \/ u = NoUser
                \/ ~u.is_active) =>
                  (resp.status = 401 /\ resp.out = NoTokens)
            /\ (decode_token(t, revoked, now).ok /\ u # NoUser /\ u.is_active) =>
                  /\ resp.status = 200
                  /\ access \in issued
                  /\ access.type = "access" /\ access.sig
                  /\ IntOfStr(access.sub) = u.id
                  /\ access.exp = access.iat + 1800
                  /\ resp.out.refresh_token = EmptyToken

-----------------------------------------------------------------------------
(* The token service: properties of SpecTok                                *)

\* the signature of t verifies and the clock is within t's lifetime
Fresh(t) == t.raw = "" /\ t.sig /\ t.iat <= now /\ now < t.exp

Lifetime(type) ==
    IF type = "access" THEN Minutes(access_token_expire_minutes) ELSE RefreshSeconds

\* C6 as stated: a token produced by generate_access_token or
\* generate_refresh_token on which revoke_token was never called decodes
\* successfully, to the user id, username and type it was issued with, at
\* every time from issuance until its expiry (30 minutes for access, 7 days
\* for refresh), and decoding it at any time after its expiry fails
C6_UnrevokedDecodesUntilExpiry ==
    \A t \in issued \ revokeCalled :
        /\ t.exp = t.iat + Lifetime(t.type)
        /\ now < t.exp =>
              /\ decode_token(t, revoked, now).ok
              /\ get_user_from_token(t, revoked, now).user_id = IntOfStr(t.sub)
              /\ get_user_from_token(t, revoked, now).username = t.username
              /\ get_user_from_token(t, revoked, now).token_type = t.type
        /\ now >= t.exp => ~decode_token(t, revoked, now).ok

-----------------------------------------------------------------------------
(* The bearer-protected routes: properties of SpecRoute                    *)

\* the entry of the revocation set that revoke_token makes for the token
RevocationEntry(token) ==
    IF token.jti # <<>> THEN JtiEntry(token.jti) ELSE TokenHash(token)

\* C2 as stated: after POST /api/auth/logout is answered for a caller who
\* presented access token T (and optionally supplied refresh token R), T is
\* in the revocation set and is rejected by every bearer-protected route,
\* and R, if supplied, is rejected by the refresh operation
C2_LogoutRevokesPresentedTokens ==
    (resp.op = "logout" /\ resp.status = 200) =>
        LET T == resp.arg.credentials.credentials
            R == resp.arg.refresh_token
        IN  /\ RevocationEntry(T) \in revoked
            /\ verify_token(Bearer(T), revoked, now).status = 401
            /\ get_current_admin_user(Bearer(T), revoked, now).status = 401
            /\ R # EmptyToken =>
                  RefreshTokenUseCase_execute(users, R, revoked, now, us, pydantic).error # ""

\* what a request may carry as its Authorization header
Carried == {NoCredentials} \cup {Bearer(t) : t \in Presentable}

-----------------------------------------------------------------------------
(* The dashboard use cases: properties of SpecDash                         *)

\* user U may edit or delete dashboard D by the rule of the specification
MayChange(U, D) == U.is_admin \/ D.created_by = U.id

\* C9: for every dashboard D and requesting user U, the can_edit and
\* can_delete flags returned by GetAllDashboards are true exactly when U is
\* an administrator or U is D's creator; for a non-admin user who is not the
\* creator both flags are false
C9_FlagsIffAdminOrCreator ==
    /\ \A i \in 1..Len(users) :
          LET r == GetAllDashboardsUseCase_execute(users, dashboards, users[i].id) IN
          /\ r.error = ""
          /\ Len(r.dashboards) = Len(dashboards)
          /\ \A k \in 1..Len(dashboards) :
                /\ r.dashboards[k].id = dashboards[k].id
                /\ r.dashboards[k].can_edit <=> MayChange(users[i], dashboards[k])
                /\ r.dashboards[k].can_delete <=> MayChange(users[i], dashboards[k])
    /\ (resp.op = "get_all" /\ resp.status = 200) =>
          /\ Len(resp.out) = Len(dashboards)
          /\ \A k \in 1..Len(resp.out) :
                /\ resp.out[k].can_edit <=>
                      MayChange(get_by_id(users, resp.arg), dashboards[k])
                /\ resp.out[k].can_delete <=>
                      MayChange(get_by_id(users, resp.arg), dashboards[k])

\* carol, who is no administrator, listed the dashboards and got one of
\* bob's, with both flags false, and one of her own, with both flags true
C9_ListedOwnAndForeign ==
    /\ resp.op = "get_all"
    /\ resp.status = 200
    /\ resp.arg = 3
    /\ ~get_by_id(users, 3).is_admin
    /\ \E k \in 1..Len(resp.out) :
          resp.out[k].created_by = 2 /\ ~resp.out[k].can_edit /\ ~resp.out[k].can_delete
    /\ \E k \in 1..Len(resp.out) :
          resp.out[k].created_by = 3 /\ resp.out[k].can_edit /\ resp.out[k].can_delete

\* the dashboards of the table as a set
Rows(tbl) == {tbl[k] : k \in 1..Len(tbl)}

-----------------------------------------------------------------------------
(* Updates of dashboards: properties of SpecUpd                            *)

\* the update was asked by a user who is neither the creator of the
\* dashboard nor an administrator
NonEditor(arg) ==
    /\ get_by_id(users, arg.user_id) # NoUser
    /\ arg.dashboard # NoDashboard
    /\ arg.dashboard.created_by # arg.user_id
    /\ ~get_by_id(users, arg.user_id).is_admin

\* C11 as stated: an UpdateDashboard request by a user who is neither the
\* dashboard's creator nor an administrator fails with Forbidden, answered
\* with HTTP 403, and changes neither the dashboards nor the stored files
C11_NonEditorUpdateAnswered403 ==
    [][(resp'.op \in {"update", "update_suspended"} /\ NonEditor(resp'.arg)) =>
          /\ ErrorKind(resp'.detail) = "Forbidden"
          /\ resp'.status = 403
          /\ dashboards' = dashboards
          /\ files' = files]_vars

\* C12 as stated: after a successful UpdateDashboard, the stored dashboard
\* (the one any later read returns) has every field present in the request
\* set to the supplied value and every field absent from it unchanged
C12_StoredDashboardHasRequestedFields ==
    (resp.op = "update" /\ resp.status = 200) =>
        LET stored == dashboard_get_by_id(dashboards, resp.arg.dashboard_id)
            before == resp.arg.dashboard
            request == resp.arg.request
        IN  /\ stored.titulo = IF request.titulo.present
                               THEN request.titulo.value ELSE before.titulo
            /\ stored.categoria = IF request.categoria.present
                                  THEN request.categoria.value ELSE before.categoria
            /\ stored.id = before.id
            /\ stored.created_by = before.created_by

\* the file a preview path names is in the storage
Stored(path) == LStripSlash(path) \in files

\* C13 as stated: when UpdateDashboard is given a new screenshot for a
\* dashboard that already has a preview, the old preview file is deleted only
\* after the new file has been saved: while the handler has not yet stored
\* the new file, the old file it found is still there
C13_OldPreviewKeptUntilNewSaved ==
    [][(~updating.active /\ updating'.active /\ updating'.old # NoPath
           /\ Stored(updating'.old)) =>
          (LStripSlash(updating'.old) \in files')]_vars

-----------------------------------------------------------------------------
(* Deletion of dashboards: a further property of SpecDash                  *)

\* C14: after a successful DeleteDashboard of dashboard D, neither D's
\* record nor D's preview file remains; the preview file is deleted before
\* the record, and every other dashboard and file is unchanged
C14_DeleteRemovesRecordAndPreview ==
    [][(resp'.op = "delete" /\ resp'.status = 200) =>
          LET D == resp'.arg.dashboard
              preview == IF D.url_imagen_preview # NoPath
                         THEN {LStripSlash(D.url_imagen_preview)} ELSE {}
          IN  /\ dashboard_get_by_id(dashboards', D.id) = NoDashboard
              /\ preview \cap files' = {}
              /\ resp'.out.after_image = files \ preview
              /\ dashboards' = SelectSeq(dashboards, LAMBDA d : d.id # D.id)
              /\ files' = files \ preview]_vars

\* an administrator has deleted a dashboard that had a preview file, while
\* another dashboard and another file were stored; these two are still there
C14_DeletedWithPreviewAmongOthers ==
    /\ resp.op = "delete"
    /\ resp.status = 200
    /\ resp.arg.dashboard.url_imagen_preview # NoPath
    /\ LStripSlash(resp.arg.dashboard.url_imagen_preview) \in resp.arg.files
    /\ Len(dashboards) > 0
    /\ files # {}

-----------------------------------------------------------------------------
(* Featured dashboards: properties of SpecFeat                             *)

\* the place of a category in the priority list, 0 when it is not there
PriorityPosition(category) ==
    IF \E c \in 1..Len(priority_categories) : SameCategory(priority_categories[c], category)
    THEN CHOOSE c \in 1..Len(priority_categories) :
             SameCategory(priority_categories[c], category)
    ELSE 0

\* the first stored dashboard of a category
FirstOfCategory(tbl, category) ==
    tbl[CHOOSE k \in 1..Len(tbl) :
            /\ SameCategory(tbl[k].categoria, category)
            /\ \A j \in 1..(k - 1) : ~SameCategory(tbl[j].categoria, category)]

\* C15 as stated: for every set of stored dashboards and every limit >= 0,
\* GetFeaturedDashboards returns at most limit dashboards, each from a
\* category in the priority list, at most one per category (the first stored
\* one of that category), ordered by priority-list position; a dashboard of
\* any other category is never returned
C15_FeaturedAtMostLimitByPriority ==
    resp.op = "featured" =>
        LET out == resp.out IN
        /\ Len(out) <= resp.arg.limit
        /\ \A k \in 1..Len(out) :
              /\ PriorityPosition(out[k].categoria) # 0
              /\ out[k] = FirstOfCategory(dashboards, out[k].categoria)
        /\ \A j, k \in 1..Len(out) :
              j < k => PriorityPosition(out[j].categoria) < PriorityPosition(out[k].categoria)

-----------------------------------------------------------------------------
(* The file storage: properties of SpecFile                                *)

\* C16 as stated: for every non-empty content within the size limit and
\* every filename, save_file followed immediately by delete_file on the
\* returned path returns true and leaves no file at that path; the storage
\* contents are then the same as before the save
C16_SaveThenDeleteRestoresStorage ==
    resp.op = "save_delete" =>
        /\ resp.out.ok
        /\ LStripSlash(resp.out.path) \notin files
        /\ files = resp.arg.files

\* C25 as stated: any two uploads stored through save_file, including two
\* that run concurrently, end up at different stored paths, so no saved file is
\* overwritten by another upload: a successful save_file returns a path at
\* which no file was stored before
C25_UploadNeverOverwrites ==
    (resp.op = "save_file" /\ resp.detail = "") =>
        LStripSlash(resp.out) \notin resp.arg.files

\* the location a path argument of delete_file resolves to is under the base
\* directory
UnderBase(file_path) ==
    LET resolved == ResolvePath(base_path, PathParts(LStripSlash(file_path)))
    IN  /\ Len(resolved) > Len(base_path)
        /\ SubSeq(resolved, 1, Len(base_path)) = base_path

\* C17 as stated: delete_file never removes a file located outside the
\* configured base directory: for every path argument whose resolved location
\* is not under the base directory, it returns false and the file system is
\* unchanged
C17_DeleteNeverOutsideBase ==
    [][resp'.op = "delete_file" =>
          /\ (files \ files') \cap OutsideFiles = {}
          /\ ~UnderBase(resp'.arg.file_path) => (resp'.out = FALSE /\ files' = files)]_vars

\* the path has a ".." component
HasDotDot(file_path) ==
    \E k \in 1..Len(PathParts(file_path)) : PathParts(file_path)[k] = <<".", ".">>

\* C18 as stated: delete_file called with any path that contains a ".."
\* component returns false and deletes nothing, whether or not the path
\* resolves to an existing file
C18_DotDotPathRefused ==
    [][(resp'.op = "delete_file" /\ HasDotDot(resp'.arg.file_path)) =>
          (resp'.out = FALSE /\ files' = files)]_vars

-----------------------------------------------------------------------------
(* The database: properties of SpecDb                                      *)

\* the backends from the selected one onward in the chain
\* mssql -> postgresql -> sqlite
Chain(selector) ==
    IF selector = "mssql" THEN <<"mssql", "postgresql", "sqlite">>
    ELSE IF selector = "postgresql" THEN <<"postgresql", "sqlite">>
    ELSE <<"sqlite">>

\* C19 as stated: database setup follows the downgrade chain
\* mssql -> postgresql -> sqlite: when the selected backend's setup fails the
\* next backend in the chain is tried, so setup always ends configured on the
\* first backend of the chain (from the selected one onward) whose setup
\* succeeds
C19_SetupEndsOnFirstWorkingBackend ==
    (resp.op = "setup" /\ resp.arg.selector \in Backends) =>
        LET chain == Chain(resp.arg.selector)
            outcome == resp.arg.outcome
        IN  \A k \in 1..Len(chain) :
               (outcome[chain[k]] = "ok" /\ \A j \in 1..(k - 1) : outcome[chain[j]] # "ok") =>
                  /\ dbcfg.state = "configured"
                  /\ dbcfg.SessionLocal = chain[k]

\* C20: every database session acquired for a request is closed by the time
\* the request ends, whether the handler returns normally or fails; no
\* sequence of requests leaves a session open after its request has finished
C20_SessionClosedWhenRequestEnded ==
    \A k \in 1..Len(sessions) : sessions[k].request = "ended" => sessions[k].db = "closed"

\* a request whose handler raised has ended with its session closed, while
\* the session of another request is still open
C20_FailedRequestEndedClosed ==
    \E j, k \in 1..Len(sessions) :
        /\ sessions[k].request = "ended"
        /\ sessions[k].handler = "raised"
        /\ sessions[k].db = "closed"
        /\ sessions[j].db = "open"

\* C21 as stated: the per-request session obtained through get_db commits
\* its pending changes when the request handler succeeds and rolls them back
\* when the handler ends with an unhandled failure, so a failed request
\* leaves no partial write visible to later requests
C21_FailedRequestLeavesNoWrite ==
    \A k \in 1..Len(sessions) :
        sessions[k].request = "ended" =>
            /\ sessions[k].pending = 0
            /\ sessions[k].handler = "raised" => sessions[k].committed = 0

-----------------------------------------------------------------------------
(* The migration: properties of SpecMig                                    *)

\* C22: running the JSON-to-enterprise-schema migration twice against the
\* same source document leaves the same users and dashboards as running it
\* once: the second run inserts no user whose username is already present and
\* no dashboard whose title is already present
C22_SecondMigrationInsertsNothing ==
    [][/\ (resp.op = "migrate" /\ resp'.op = "migrate"
             /\ resp'.arg.document = resp.arg.document) =>
            (users' = users /\ dashboards' = dashboards)
       /\ resp'.op = "migrate" =>
            /\ \A i \in (Len(users) + 1)..Len(users') :
                  \A j \in 1..(i - 1) : users'[j].Username # users'[i].Username
            /\ \A i \in (Len(dashboards) + 1)..Len(dashboards') :
                  \A j \in 1..(i - 1) :
                      dashboards'[j].DashboardTitle # dashboards'[i].DashboardTitle
            /\ SubSeq(users', 1, Len(users)) = users
            /\ SubSeq(dashboards', 1, Len(dashboards)) = dashboards]_vars

\* a document with users and tableros has been migrated into a database that
\* had all of them, and nothing was inserted
C22_MigratedAgain ==
    /\ resp.op = "migrate"
    /\ resp.detail = ""
    /\ resp.out = 0
    /\ Len(resp.arg.document.users) > 1
    /\ Len(resp.arg.document.tableros) > 1
    /\ Len(users) > 0
    /\ Len(dashboards) > 0

-----------------------------------------------------------------------------
(* Change of password: properties of SpecPw                                *)

\* what C23 says of one ChangePassword, the old password being required to
\* stop working when strict, and only when it differs from the new one
\* otherwise
PasswordChanged(strict) ==
    resp'.op = "change_password" =>
        LET a == resp'.arg
            before == get_by_id(users, a.user_id)
            after == get_by_id(users', a.user_id)
        IN  /\ users' # users => verify_password(a.old_password, before.hashed_password)
            /\ (before # NoUser /\ validate_password(a.new_password)
                  /\ ~verify_password(a.old_password, before.hashed_password)) =>
                  /\ ErrorKind(resp'.detail) = "InvalidCredentials"
                  /\ users' = users
            /\ resp'.status = 200 =>
                  /\ verify_password(a.new_password, after.hashed_password)
                  /\ (strict \/ a.old_password # a.new_password) =>
                        ~verify_password(a.old_password, after.hashed_password)
                  /\ \A i \in 1..Len(users) : users[i].id # a.user_id => users'[i] = users[i]

-----------------------------------------------------------------------------
(* Logout route: properties of SpecRoute                                   *)

-----------------------------------------------------------------------------
(* The legacy entry points: properties of SpecLegacy                       *)

\* C26 as stated: in the two legacy relational entry points (adapter variant
\* and mid-tier variant), POST /api/login for a user whose active flag is
\* false fails with 401 and issues no token, even with the correct password
C26_LegacyLoginRefusesInactive ==
    (/\ resp.op \in {"main_login", "main_postgres_login"}
     /\ get_by_username(users, resp.arg.username) # NoUser
     /\ ~get_by_username(users, resp.arg.username).is_active) =>
        /\ resp.status = 401
        /\ resp.out = NoLegacyToken

-----------------------------------------------------------------------------
(* Token types and revocation: properties of SpecAuth and SpecTok          *)

\* C27 as stated: the refresh operation issues a new access token only when
\* the presented token has type refresh: presenting a valid, unrevoked
\* access-type token to RefreshToken fails with InvalidToken
C27_RefreshOnlyWithRefreshToken ==
    resp.op = "refresh" =>
        /\ resp.status = 200 => resp.arg.type = "refresh"
        /\ resp.arg.type = "access" => (resp.status = 401 /\ resp.out = NoTokens)

\* C28 as stated: revoking a token invalidates only that token: for any two
\* distinct issued tokens T1 and T2 (including two of the same type issued to
\* the same user within the same second), revoking T1 leaves T2 accepted by
\* decode_token until T2 itself is revoked or expires
C28_RevokingOneLeavesOthersAccepted ==
    [][resp'.op = "revoke" =>
        \A T2 \in issued \ {resp'.arg} :
            decode_token(T2, revoked, now).ok => decode_token(T2, revoked', now').ok]_vars

-----------------------------------------------------------------------------
(* Previews of the stored dashboards: a property of SpecUpd and SpecDash   *)

\* C30 as stated: after every completed CreateDashboard, UpdateDashboard or
\* DeleteDashboard, each stored dashboard whose preview path is non-empty
\* names a file that exists in file storage (no operation leaves a dashboard
\* pointing at a deleted preview file)
C30_StoredPreviewExists ==
    (~updating.active /\ resp.op \in {"create", "update", "delete"}) =>
        \A i \in 1..Len(dashboards) :
            dashboards[i].url_imagen_preview # NoPath =>
                Stored(dashboards[i].url_imagen_preview)

=============================================================================
